---- MODULE Spec2Model ----
(***************************************************************************)
(* WBS assembly pipeline of mcp-wbs-add2: category classification, task    *)
(* merging, duplicate detection, master-data provisioning, versioned       *)
(* storage and the create_wbs orchestration.                               *)
(*                                                                         *)
(* Text is modelled as a sequence of characters, one string per character  *)
(* ("a", or "u30C6" for the code point U+30C6), so that str.lower(), len()  *)
(* and the substring test are computed as Python computes them.  The ASCII *)
(* characters stand for themselves, but for the grave accent, which is     *)
(* written "u0060".                                                        *)
(***************************************************************************)
EXTENDS Integers, Sequences, FiniteSets, TLC

\* Python's None for a name (a category, a program position, an error)
None == "None"

\* an absent text (None or ""), which Python treats alike in a condition
NoText == <<>>

\* an optional record: <<>> for None, <<r>> for the record r
Nothing == <<>>
Some(r) == <<r>>
TheOne(o) == o[1]

(***************************************************************************)
(* Text helpers                                                            *)
(***************************************************************************)

\* the texts of a sequence of texts, one after the other
RECURSIVE ConcatAll(_)
ConcatAll(texts) ==
  IF texts = <<>> THEN <<>>
  ELSE IF Len(texts) = 1 THEN texts[1]
  ELSE ConcatAll(SubSeq(texts, 1, Len(texts) \div 2))
         \o ConcatAll(SubSeq(texts, (Len(texts) \div 2) + 1, Len(texts)))

\* The ASCII characters in the order of their codes: Ascii[n + 1] has code n
Ascii ==
  <<"u0000", "u0001", "u0002", "u0003", "u0004", "u0005", "u0006", "u0007",
    "u0008", "\t", "\n", "u000B", "\f", "\r", "u000E", "u000F", "u0010",
    "u0011", "u0012", "u0013", "u0014", "u0015", "u0016", "u0017", "u0018",
    "u0019", "u001A", "u001B", "u001C", "u001D", "u001E", "u001F", " ", "!",
    "\"", "#", "$", "%", "&", "'", "(", ")", "*", "+", ",", "-", ".", "/",
    "0", "1", "2", "3", "4", "5", "6", "7", "8", "9", ":", ";", "<", "=",
    ">", "?", "@", "A", "B", "C", "D", "E", "F", "G", "H", "I", "J", "K",
    "L", "M", "N", "O", "P", "Q", "R", "S", "T", "U", "V", "W", "X", "Y",
    "Z", "[", "\\", "]", "^", "_", "u0060", "a", "b", "c", "d", "e", "f",
    "g", "h", "i", "j", "k", "l", "m", "n", "o", "p", "q", "r", "s", "t",
    "u", "v", "w", "x", "y", "z", "{", "|", "}", "~", "u007F">>

\* the function from the members of a sequence to their index less one
code_table(chars) ==
  [c \in {chars[i] : i \in DOMAIN chars} |->
     (CHOOSE i \in DOMAIN chars : chars[i] = c) - 1]

AsciiCode == code_table(Ascii)

HexDigits ==
  <<"0", "1", "2", "3", "4", "5", "6", "7", "8", "9", "A", "B", "C", "D",
    "E", "F">>

LowerHexDigits ==
  <<"0", "1", "2", "3", "4", "5", "6", "7", "8", "9", "a", "b", "c", "d",
    "e", "f">>

\* the value of a hexadecimal digit, in either case
HexValue == code_table(HexDigits) @@ code_table(LowerHexDigits)

\* the number that the hexadecimal digits of name are, from index i on
RECURSIVE hex_number(_, _, _, _)
hex_number(name, i, n, digits) ==
  IF i > Len(name) THEN n
  ELSE hex_number(name, i + 1, (n * 16) + digits[SubSeq(name, i, i)], digits)

code_point(c, ascii) ==
  IF c \in DOMAIN ascii THEN ascii[c] ELSE hex_number(c, 2, 0, HexValue)

\* the code point of character c: a character that is not ASCII is written
\* "u" and its code point in hexadecimal digits
ord(c) == code_point(c, AsciiCode)

\* n in hexadecimal digits, four at least ("%04X")
RECURSIVE upper_hex(_, _, _)
upper_hex(n, width, digits) ==
  IF n = 0 /\ width <= 0 THEN ""
  ELSE upper_hex(n \div 16, width - 1, digits) \o digits[(n % 16) + 1]

\* the character of code point n
chr(n) == IF n < 128 THEN Ascii[n + 1] ELSE "u" \o upper_hex(n, 4, HexDigits)

\* str.lower() by code point (the case mappings of Unicode 14.0 to 15.1, the
\* tables of Python 3.11 to 3.13, which differ only in the Cased and
\* Case_Ignorable code points that Unicode 15.0 added and that are taken in
\* below, so that the final sigma is decided as Python 3.12 and 3.13 do): of a
\* run <<first, last, step, delta>> the code points first, first + step, ...,
\* last each become the code point delta further on.  U+0130 becomes two
\* characters and is handled by LowerChar, U+03A3 has a second form that
\* depends on its neighbours
LowerRuns ==
  {<<65, 90, 1, 32>>, <<192, 214, 1, 32>>, <<216, 222, 1, 32>>,
   <<256, 302, 2, 1>>, <<306, 310, 2, 1>>, <<313, 327, 2, 1>>,
   <<330, 374, 2, 1>>, <<376, 376, 1, -121>>, <<377, 381, 2, 1>>,
   <<385, 385, 1, 210>>, <<386, 388, 2, 1>>, <<390, 390, 1, 206>>,
   <<391, 391, 1, 1>>, <<393, 394, 1, 205>>, <<395, 395, 1, 1>>,
   <<398, 398, 1, 79>>, <<399, 399, 1, 202>>, <<400, 400, 1, 203>>,
   <<401, 401, 1, 1>>, <<403, 403, 1, 205>>, <<404, 404, 1, 207>>,
   <<406, 406, 1, 211>>, <<407, 407, 1, 209>>, <<408, 408, 1, 1>>,
   <<412, 412, 1, 211>>, <<413, 413, 1, 213>>, <<415, 415, 1, 214>>,
   <<416, 420, 2, 1>>, <<422, 422, 1, 218>>, <<423, 423, 1, 1>>,
   <<425, 425, 1, 218>>, <<428, 428, 1, 1>>, <<430, 430, 1, 218>>,
   <<431, 431, 1, 1>>, <<433, 434, 1, 217>>, <<435, 437, 2, 1>>,
   <<439, 439, 1, 219>>, <<440, 440, 1, 1>>, <<444, 444, 1, 1>>,
   <<452, 452, 1, 2>>, <<453, 453, 1, 1>>, <<455, 455, 1, 2>>,
   <<456, 456, 1, 1>>, <<458, 458, 1, 2>>, <<459, 475, 2, 1>>,
   <<478, 494, 2, 1>>, <<497, 497, 1, 2>>, <<498, 500, 2, 1>>,
   <<502, 502, 1, -97>>, <<503, 503, 1, -56>>, <<504, 542, 2, 1>>,
   <<544, 544, 1, -130>>, <<546, 562, 2, 1>>, <<570, 570, 1, 10795>>,
   <<571, 571, 1, 1>>, <<573, 573, 1, -163>>, <<574, 574, 1, 10792>>,
   <<577, 577, 1, 1>>, <<579, 579, 1, -195>>, <<580, 580, 1, 69>>,
   <<581, 581, 1, 71>>, <<582, 590, 2, 1>>, <<880, 882, 2, 1>>,
   <<886, 886, 1, 1>>, <<895, 895, 1, 116>>, <<902, 902, 1, 38>>,
   <<904, 906, 1, 37>>, <<908, 908, 1, 64>>, <<910, 911, 1, 63>>,
   <<913, 929, 1, 32>>, <<931, 939, 1, 32>>, <<975, 975, 1, 8>>,
   <<984, 1006, 2, 1>>, <<1012, 1012, 1, -60>>, <<1015, 1015, 1, 1>>,
   <<1017, 1017, 1, -7>>, <<1018, 1018, 1, 1>>, <<1021, 1023, 1, -130>>,
   <<1024, 1039, 1, 80>>, <<1040, 1071, 1, 32>>, <<1120, 1152, 2, 1>>,
   <<1162, 1214, 2, 1>>, <<1216, 1216, 1, 15>>, <<1217, 1229, 2, 1>>,
   <<1232, 1326, 2, 1>>, <<1329, 1366, 1, 48>>, <<4256, 4293, 1, 7264>>,
   <<4295, 4295, 1, 7264>>, <<4301, 4301, 1, 7264>>,
   <<5024, 5103, 1, 38864>>, <<5104, 5109, 1, 8>>, <<7312, 7354, 1, -3008>>,
   <<7357, 7359, 1, -3008>>, <<7680, 7828, 2, 1>>, <<7838, 7838, 1, -7615>>,
   <<7840, 7934, 2, 1>>, <<7944, 7951, 1, -8>>, <<7960, 7965, 1, -8>>,
   <<7976, 7983, 1, -8>>, <<7992, 7999, 1, -8>>, <<8008, 8013, 1, -8>>,
   <<8025, 8031, 2, -8>>, <<8040, 8047, 1, -8>>, <<8072, 8079, 1, -8>>,
   <<8088, 8095, 1, -8>>, <<8104, 8111, 1, -8>>, <<8120, 8121, 1, -8>>,
   <<8122, 8123, 1, -74>>, <<8124, 8124, 1, -9>>, <<8136, 8139, 1, -86>>,
   <<8140, 8140, 1, -9>>, <<8152, 8153, 1, -8>>, <<8154, 8155, 1, -100>>,
   <<8168, 8169, 1, -8>>, <<8170, 8171, 1, -112>>, <<8172, 8172, 1, -7>>,
   <<8184, 8185, 1, -128>>, <<8186, 8187, 1, -126>>, <<8188, 8188, 1, -9>>,
   <<8486, 8486, 1, -7517>>, <<8490, 8490, 1, -8383>>,
   <<8491, 8491, 1, -8262>>, <<8498, 8498, 1, 28>>, <<8544, 8559, 1, 16>>,
   <<8579, 8579, 1, 1>>, <<9398, 9423, 1, 26>>, <<11264, 11311, 1, 48>>,
   <<11360, 11360, 1, 1>>, <<11362, 11362, 1, -10743>>,
   <<11363, 11363, 1, -3814>>, <<11364, 11364, 1, -10727>>,
   <<11367, 11371, 2, 1>>, <<11373, 11373, 1, -10780>>,
   <<11374, 11374, 1, -10749>>, <<11375, 11375, 1, -10783>>,
   <<11376, 11376, 1, -10782>>, <<11378, 11378, 1, 1>>,
   <<11381, 11381, 1, 1>>, <<11390, 11391, 1, -10815>>,
   <<11392, 11490, 2, 1>>, <<11499, 11501, 2, 1>>, <<11506, 11506, 1, 1>>,
   <<42560, 42604, 2, 1>>, <<42624, 42650, 2, 1>>, <<42786, 42798, 2, 1>>,
   <<42802, 42862, 2, 1>>, <<42873, 42875, 2, 1>>,
   <<42877, 42877, 1, -35332>>, <<42878, 42886, 2, 1>>,
   <<42891, 42891, 1, 1>>, <<42893, 42893, 1, -42280>>,
   <<42896, 42898, 2, 1>>, <<42902, 42920, 2, 1>>,
   <<42922, 42922, 1, -42308>>, <<42923, 42923, 1, -42319>>,
   <<42924, 42924, 1, -42315>>, <<42925, 42925, 1, -42305>>,
   <<42926, 42926, 1, -42308>>, <<42928, 42928, 1, -42258>>,
   <<42929, 42929, 1, -42282>>, <<42930, 42930, 1, -42261>>,
   <<42931, 42931, 1, 928>>, <<42932, 42946, 2, 1>>,
   <<42948, 42948, 1, -48>>, <<42949, 42949, 1, -42307>>,
   <<42950, 42950, 1, -35384>>, <<42951, 42953, 2, 1>>,
   <<42960, 42960, 1, 1>>, <<42966, 42968, 2, 1>>, <<42997, 42997, 1, 1>>,
   <<65313, 65338, 1, 32>>, <<66560, 66599, 1, 40>>, <<66736, 66771, 1, 40>>,
   <<66928, 66938, 1, 39>>, <<66940, 66954, 1, 39>>, <<66956, 66962, 1, 39>>,
   <<66964, 66965, 1, 39>>, <<68736, 68786, 1, 64>>, <<71840, 71871, 1, 32>>,
   <<93760, 93791, 1, 32>>, <<125184, 125217, 1, 34>>}

\* the function a set of runs stands for
run_table(runs) ==
  [n \in UNION {{run[1] + (k * run[3]) : k \in 0..((run[2] - run[1]) \div run[3])} :
                run \in runs} |->
     n + (CHOOSE run \in runs :
            run[1] <= n /\ n <= run[2] /\ (n - run[1]) % run[3] = 0)[4]]

\* code point -> the code point str.lower() makes of it, where it changes
LowerTable == run_table(LowerRuns)

\* the cased code points that are not case-ignorable, in ranges <<first, last>>
CasedRanges ==
  {<<65, 90>>, <<97, 122>>, <<170, 170>>, <<181, 181>>, <<186, 186>>,
   <<192, 214>>, <<216, 246>>, <<248, 442>>, <<444, 447>>, <<452, 659>>,
   <<661, 687>>, <<880, 883>>, <<886, 887>>, <<891, 893>>, <<895, 895>>,
   <<902, 902>>, <<904, 906>>, <<908, 908>>, <<910, 929>>, <<931, 1013>>,
   <<1015, 1153>>, <<1162, 1327>>, <<1329, 1366>>, <<1376, 1416>>,
   <<4256, 4293>>, <<4295, 4295>>, <<4301, 4301>>, <<4304, 4346>>,
   <<4349, 4351>>, <<5024, 5109>>, <<5112, 5117>>, <<7296, 7304>>,
   <<7312, 7354>>, <<7357, 7359>>, <<7424, 7467>>, <<7531, 7543>>,
   <<7545, 7578>>, <<7680, 7957>>, <<7960, 7965>>, <<7968, 8005>>,
   <<8008, 8013>>, <<8016, 8023>>, <<8025, 8025>>, <<8027, 8027>>,
   <<8029, 8029>>, <<8031, 8061>>, <<8064, 8116>>, <<8118, 8124>>,
   <<8126, 8126>>, <<8130, 8132>>, <<8134, 8140>>, <<8144, 8147>>,
   <<8150, 8155>>, <<8160, 8172>>, <<8178, 8180>>, <<8182, 8188>>,
   <<8450, 8450>>, <<8455, 8455>>, <<8458, 8467>>, <<8469, 8469>>,
   <<8473, 8477>>, <<8484, 8484>>, <<8486, 8486>>, <<8488, 8488>>,
   <<8490, 8493>>, <<8495, 8500>>, <<8505, 8505>>, <<8508, 8511>>,
   <<8517, 8521>>, <<8526, 8526>>, <<8544, 8575>>, <<8579, 8580>>,
   <<9398, 9449>>, <<11264, 11387>>, <<11390, 11492>>, <<11499, 11502>>,
   <<11506, 11507>>, <<11520, 11557>>, <<11559, 11559>>, <<11565, 11565>>,
   <<42560, 42605>>, <<42624, 42651>>, <<42786, 42863>>, <<42865, 42887>>,
   <<42891, 42894>>, <<42896, 42954>>, <<42960, 42961>>, <<42963, 42963>>,
   <<42965, 42969>>, <<42997, 42998>>, <<43002, 43002>>, <<43824, 43866>>,
   <<43872, 43880>>, <<43888, 43967>>, <<64256, 64262>>, <<64275, 64279>>,
   <<65313, 65338>>, <<65345, 65370>>, <<66560, 66639>>, <<66736, 66771>>,
   <<66776, 66811>>, <<66928, 66938>>, <<66940, 66954>>, <<66956, 66962>>,
   <<66964, 66965>>, <<66967, 66977>>, <<66979, 66993>>, <<66995, 67001>>,
   <<67003, 67004>>, <<68736, 68786>>, <<68800, 68850>>, <<71840, 71903>>,
   <<93760, 93823>>, <<119808, 119892>>, <<119894, 119964>>,
   <<119966, 119967>>, <<119970, 119970>>, <<119973, 119974>>,
   <<119977, 119980>>, <<119982, 119993>>, <<119995, 119995>>,
   <<119997, 120003>>, <<120005, 120069>>, <<120071, 120074>>,
   <<120077, 120084>>, <<120086, 120092>>, <<120094, 120121>>,
   <<120123, 120126>>, <<120128, 120132>>, <<120134, 120134>>,
   <<120138, 120144>>, <<120146, 120485>>, <<120488, 120512>>,
   <<120514, 120538>>, <<120540, 120570>>, <<120572, 120596>>,
   <<120598, 120628>>, <<120630, 120654>>, <<120656, 120686>>,
   <<120688, 120712>>, <<120714, 120744>>, <<120746, 120770>>,
   <<120772, 120779>>, <<122624, 122633>>, <<122635, 122654>>,
   <<122661, 122666>>, <<125184, 125251>>, <<127280, 127305>>,
   <<127312, 127337>>, <<127344, 127369>>}

\* the case-ignorable code points, in ranges <<first, last>>
CaseIgnorableRanges ==
  {<<39, 39>>, <<46, 46>>, <<58, 58>>, <<94, 94>>, <<96, 96>>, <<168, 168>>,
   <<173, 173>>, <<175, 175>>, <<180, 180>>, <<183, 184>>, <<688, 879>>,
   <<884, 885>>, <<890, 890>>, <<900, 901>>, <<903, 903>>, <<1155, 1161>>,
   <<1369, 1369>>, <<1375, 1375>>, <<1425, 1469>>, <<1471, 1471>>,
   <<1473, 1474>>, <<1476, 1477>>, <<1479, 1479>>, <<1524, 1524>>,
   <<1536, 1541>>, <<1552, 1562>>, <<1564, 1564>>, <<1600, 1600>>,
   <<1611, 1631>>, <<1648, 1648>>, <<1750, 1757>>, <<1759, 1768>>,
   <<1770, 1773>>, <<1807, 1807>>, <<1809, 1809>>, <<1840, 1866>>,
   <<1958, 1968>>, <<2027, 2037>>, <<2042, 2042>>, <<2045, 2045>>,
   <<2070, 2093>>, <<2137, 2139>>, <<2184, 2184>>, <<2192, 2193>>,
   <<2200, 2207>>, <<2249, 2306>>, <<2362, 2362>>, <<2364, 2364>>,
   <<2369, 2376>>, <<2381, 2381>>, <<2385, 2391>>, <<2402, 2403>>,
   <<2417, 2417>>, <<2433, 2433>>, <<2492, 2492>>, <<2497, 2500>>,
   <<2509, 2509>>, <<2530, 2531>>, <<2558, 2558>>, <<2561, 2562>>,
   <<2620, 2620>>, <<2625, 2626>>, <<2631, 2632>>, <<2635, 2637>>,
   <<2641, 2641>>, <<2672, 2673>>, <<2677, 2677>>, <<2689, 2690>>,
   <<2748, 2748>>, <<2753, 2757>>, <<2759, 2760>>, <<2765, 2765>>,
   <<2786, 2787>>, <<2810, 2815>>, <<2817, 2817>>, <<2876, 2876>>,
   <<2879, 2879>>, <<2881, 2884>>, <<2893, 2893>>, <<2901, 2902>>,
   <<2914, 2915>>, <<2946, 2946>>, <<3008, 3008>>, <<3021, 3021>>,
   <<3072, 3072>>, <<3076, 3076>>, <<3132, 3132>>, <<3134, 3136>>,
   <<3142, 3144>>, <<3146, 3149>>, <<3157, 3158>>, <<3170, 3171>>,
   <<3201, 3201>>, <<3260, 3260>>, <<3263, 3263>>, <<3270, 3270>>,
   <<3276, 3277>>, <<3298, 3299>>, <<3328, 3329>>, <<3387, 3388>>,
   <<3393, 3396>>, <<3405, 3405>>, <<3426, 3427>>, <<3457, 3457>>,
   <<3530, 3530>>, <<3538, 3540>>, <<3542, 3542>>, <<3633, 3633>>,
   <<3636, 3642>>, <<3654, 3662>>, <<3761, 3761>>, <<3764, 3772>>,
   <<3782, 3782>>, <<3784, 3790>>, <<3864, 3865>>, <<3893, 3893>>,
   <<3895, 3895>>, <<3897, 3897>>, <<3953, 3966>>, <<3968, 3972>>,
   <<3974, 3975>>, <<3981, 3991>>, <<3993, 4028>>, <<4038, 4038>>,
   <<4141, 4144>>, <<4146, 4151>>, <<4153, 4154>>, <<4157, 4158>>,
   <<4184, 4185>>, <<4190, 4192>>, <<4209, 4212>>, <<4226, 4226>>,
   <<4229, 4230>>, <<4237, 4237>>, <<4253, 4253>>, <<4348, 4348>>,
   <<4957, 4959>>, <<5906, 5908>>, <<5938, 5939>>, <<5970, 5971>>,
   <<6002, 6003>>, <<6068, 6069>>, <<6071, 6077>>, <<6086, 6086>>,
   <<6089, 6099>>, <<6103, 6103>>, <<6109, 6109>>, <<6155, 6159>>,
   <<6211, 6211>>, <<6277, 6278>>, <<6313, 6313>>, <<6432, 6434>>,
   <<6439, 6440>>, <<6450, 6450>>, <<6457, 6459>>, <<6679, 6680>>,
   <<6683, 6683>>, <<6742, 6742>>, <<6744, 6750>>, <<6752, 6752>>,
   <<6754, 6754>>, <<6757, 6764>>, <<6771, 6780>>, <<6783, 6783>>,
   <<6823, 6823>>, <<6832, 6862>>, <<6912, 6915>>, <<6964, 6964>>,
   <<6966, 6970>>, <<6972, 6972>>, <<6978, 6978>>, <<7019, 7027>>,
   <<7040, 7041>>, <<7074, 7077>>, <<7080, 7081>>, <<7083, 7085>>,
   <<7142, 7142>>, <<7144, 7145>>, <<7149, 7149>>, <<7151, 7153>>,
   <<7212, 7219>>, <<7222, 7223>>, <<7288, 7293>>, <<7376, 7378>>,
   <<7380, 7392>>, <<7394, 7400>>, <<7405, 7405>>, <<7412, 7412>>,
   <<7416, 7417>>, <<7468, 7530>>, <<7544, 7544>>, <<7579, 7679>>,
   <<8125, 8125>>, <<8127, 8129>>, <<8141, 8143>>, <<8157, 8159>>,
   <<8173, 8175>>, <<8189, 8190>>, <<8203, 8207>>, <<8216, 8217>>,
   <<8228, 8228>>, <<8231, 8231>>, <<8234, 8238>>, <<8288, 8292>>,
   <<8294, 8303>>, <<8305, 8305>>, <<8319, 8319>>, <<8336, 8348>>,
   <<8400, 8432>>, <<11388, 11389>>, <<11503, 11505>>, <<11631, 11631>>,
   <<11647, 11647>>, <<11744, 11775>>, <<11823, 11823>>, <<12293, 12293>>,
   <<12330, 12333>>, <<12337, 12341>>, <<12347, 12347>>, <<12441, 12446>>,
   <<12540, 12542>>, <<40981, 40981>>, <<42232, 42237>>, <<42508, 42508>>,
   <<42607, 42610>>, <<42612, 42621>>, <<42623, 42623>>, <<42652, 42655>>,
   <<42736, 42737>>, <<42752, 42785>>, <<42864, 42864>>, <<42888, 42890>>,
   <<42994, 42996>>, <<43000, 43001>>, <<43010, 43010>>, <<43014, 43014>>,
   <<43019, 43019>>, <<43045, 43046>>, <<43052, 43052>>, <<43204, 43205>>,
   <<43232, 43249>>, <<43263, 43263>>, <<43302, 43309>>, <<43335, 43345>>,
   <<43392, 43394>>, <<43443, 43443>>, <<43446, 43449>>, <<43452, 43453>>,
   <<43471, 43471>>, <<43493, 43494>>, <<43561, 43566>>, <<43569, 43570>>,
   <<43573, 43574>>, <<43587, 43587>>, <<43596, 43596>>, <<43632, 43632>>,
   <<43644, 43644>>, <<43696, 43696>>, <<43698, 43700>>, <<43703, 43704>>,
   <<43710, 43711>>, <<43713, 43713>>, <<43741, 43741>>, <<43756, 43757>>,
   <<43763, 43764>>, <<43766, 43766>>, <<43867, 43871>>, <<43881, 43883>>,
   <<44005, 44005>>, <<44008, 44008>>, <<44013, 44013>>, <<64286, 64286>>,
   <<64434, 64450>>, <<65024, 65039>>, <<65043, 65043>>, <<65056, 65071>>,
   <<65106, 65106>>, <<65109, 65109>>, <<65279, 65279>>, <<65287, 65287>>,
   <<65294, 65294>>, <<65306, 65306>>, <<65342, 65342>>, <<65344, 65344>>,
   <<65392, 65392>>, <<65438, 65439>>, <<65507, 65507>>, <<65529, 65531>>,
   <<66045, 66045>>, <<66272, 66272>>, <<66422, 66426>>, <<67456, 67461>>,
   <<67463, 67504>>, <<67506, 67514>>, <<68097, 68099>>, <<68101, 68102>>,
   <<68108, 68111>>, <<68152, 68154>>, <<68159, 68159>>, <<68325, 68326>>,
   <<68900, 68903>>, <<69291, 69292>>, <<69373, 69375>>, <<69446, 69456>>,
   <<69506, 69509>>, <<69633, 69633>>, <<69688, 69702>>, <<69744, 69744>>,
   <<69747, 69748>>, <<69759, 69761>>, <<69811, 69814>>, <<69817, 69818>>,
   <<69821, 69821>>, <<69826, 69826>>, <<69837, 69837>>, <<69888, 69890>>,
   <<69927, 69931>>, <<69933, 69940>>, <<70003, 70003>>, <<70016, 70017>>,
   <<70070, 70078>>, <<70089, 70092>>, <<70095, 70095>>, <<70191, 70193>>,
   <<70196, 70196>>, <<70198, 70199>>, <<70206, 70206>>, <<70209, 70209>>,
   <<70367, 70367>>, <<70371, 70378>>, <<70400, 70401>>, <<70459, 70460>>,
   <<70464, 70464>>, <<70502, 70508>>, <<70512, 70516>>, <<70712, 70719>>,
   <<70722, 70724>>, <<70726, 70726>>, <<70750, 70750>>, <<70835, 70840>>,
   <<70842, 70842>>, <<70847, 70848>>, <<70850, 70851>>, <<71090, 71093>>,
   <<71100, 71101>>, <<71103, 71104>>, <<71132, 71133>>, <<71219, 71226>>,
   <<71229, 71229>>, <<71231, 71232>>, <<71339, 71339>>, <<71341, 71341>>,
   <<71344, 71349>>, <<71351, 71351>>, <<71453, 71455>>, <<71458, 71461>>,
   <<71463, 71467>>, <<71727, 71735>>, <<71737, 71738>>, <<71995, 71996>>,
   <<71998, 71998>>, <<72003, 72003>>, <<72148, 72151>>, <<72154, 72155>>,
   <<72160, 72160>>, <<72193, 72202>>, <<72243, 72248>>, <<72251, 72254>>,
   <<72263, 72263>>, <<72273, 72278>>, <<72281, 72283>>, <<72330, 72342>>,
   <<72344, 72345>>, <<72752, 72758>>, <<72760, 72765>>, <<72767, 72767>>,
   <<72850, 72871>>, <<72874, 72880>>, <<72882, 72883>>, <<72885, 72886>>,
   <<73009, 73014>>, <<73018, 73018>>, <<73020, 73021>>, <<73023, 73029>>,
   <<73031, 73031>>, <<73104, 73105>>, <<73109, 73109>>, <<73111, 73111>>,
   <<73459, 73460>>, <<73472, 73473>>, <<73526, 73530>>, <<73536, 73536>>,
   <<73538, 73538>>, <<78896, 78912>>, <<78919, 78933>>, <<92912, 92916>>,
   <<92976, 92982>>, <<92992, 92995>>, <<94031, 94031>>, <<94095, 94111>>,
   <<94176, 94177>>, <<94179, 94180>>, <<110576, 110579>>, <<110581, 110587>>,
   <<110589, 110590>>, <<113821, 113822>>, <<113824, 113827>>,
   <<118528, 118573>>, <<118576, 118598>>, <<119143, 119145>>,
   <<119155, 119170>>, <<119173, 119179>>, <<119210, 119213>>,
   <<119362, 119364>>, <<121344, 121398>>, <<121403, 121452>>,
   <<121461, 121461>>, <<121476, 121476>>, <<121499, 121503>>,
   <<121505, 121519>>, <<122880, 122886>>, <<122888, 122904>>,
   <<122907, 122913>>, <<122915, 122916>>, <<122918, 122922>>,
   <<122928, 122989>>, <<123023, 123023>>, <<123184, 123197>>,
   <<123566, 123566>>, <<123628, 123631>>, <<124139, 124143>>,
   <<125136, 125142>>, <<125252, 125259>>, <<127995, 127999>>,
   <<917505, 917505>>, <<917536, 917631>>, <<917760, 917999>>}

range_codes(ranges) == UNION {range[1]..range[2] : range \in ranges}

Cased == range_codes(CasedRanges)

CaseIgnorable == range_codes(CaseIgnorableRanges)

lower_code_point(c, n, table) ==
  IF n \in DOMAIN table THEN <<chr(table[n])>> ELSE <<c>>

\* str.lower() of a text of one character
LowerChar(c) ==
  IF c = "u0130" THEN <<"i", "u0307">>
  ELSE lower_code_point(c, ord(c), LowerTable)

\* FinalSigma for a text given by its code points
final_sigma(codes, i, cased, ignorable) ==
  /\ \E j \in 1..(i - 1) :
       /\ codes[j] \in cased
       /\ \A k \in (j + 1)..(i - 1) : codes[k] \in ignorable
  /\ ~\E j \in (i + 1)..Len(codes) :
       /\ codes[j] \in cased
       /\ \A k \in (i + 1)..(j - 1) : codes[k] \in ignorable

\* the capital sigma at position i ends a word: a cased character comes
\* before it and none after it, case-ignorable characters not counted
FinalSigma(s, i) ==
  final_sigma([j \in 1..Len(s) |-> ord(s[j])], i, Cased, CaseIgnorable)

\* what str.lower() makes of the character at position i of s
LowerAt(s, i) ==
  IF s[i] = "u03A3"
  THEN <<IF FinalSigma(s, i) THEN "u03C2" ELSE "u03C3">>
  ELSE LowerChar(s[i])

\* the characters of parts in one text: one for each part, but where a part
\* has two
lower_parts(parts) ==
  IF \A i \in DOMAIN parts : Len(parts[i]) = 1
  THEN [i \in DOMAIN parts |-> parts[i][1]]
  ELSE ConcatAll(parts)

\* str.lower()
Lower(s) == lower_parts([i \in 1..Len(s) |-> LowerAt(s, i)])

\* Python's `k in t` for strings
IsSubstr(k, t) ==
  \E i \in 0..(Len(t) - Len(k)) : SubSeq(t, i + 1, i + Len(k)) = k

(***************************************************************************)
(* models/enums.py, models/task.py                                         *)
(***************************************************************************)

\* CategoryEnum member names, in declaration order
CategoryEnum ==
  <<"PREPARATION", "REQUIREMENTS", "BASIC_DESIGN", "IMPLEMENTATION",
    "TESTING", "RELEASE", "DELIVERY">>

\* CategoryEnum member values
CategoryValue ==
     "PREPARATION" :> <<"u4E8B", "u524D", "u6E96", "u5099">>  \* 事前準備
  @@ "REQUIREMENTS" :> <<"u8981", "u4EF6", "u5B9A", "u7FA9">>  \* 要件定義
  @@ "BASIC_DESIGN" :> <<"u57FA", "u672C", "u8A2D", "u8A08">>  \* 基本設計
  @@ "IMPLEMENTATION" :> <<"u5B9F", "u88C5">>  \* 実装
  @@ "TESTING" :> <<"u30C6", "u30B9", "u30C8">>  \* テスト
  @@ "RELEASE" :> <<"u30EA", "u30EA", "u30FC", "u30B9">>  \* リリース
  @@ "DELIVERY" :> <<"u7D0D", "u54C1">>  \* 納品

Categories == {CategoryEnum[i] : i \in 1..Len(CategoryEnum)}

DEFAULT_CATEGORY == "REQUIREMENTS"

\* Task(title, description, category): the constructor validates category and,
\* because of use_enum_values, stores the member's value (a plain str);
\* category_is_enum is FALSE then.  model_copy(update=...) and attribute
\* assignment do not validate and leave the CategoryEnum member in place.
TaskFull(title, description, category, priority, assignee) ==
  [title |-> title, description |-> description, category |-> category,
   priority |-> priority, assignee |-> assignee, category_is_enum |-> FALSE]

Task(title, description, category) ==
  TaskFull(title, description, category, NoText, NoText)

(***************************************************************************)
(* services/category_detector.py                                           *)
(***************************************************************************)

\* category_keywords; a character outside ASCII is written as its code point
category_keywords ==
     "PREPARATION" :> <<
        <<"u4E8B", "u524D", "u6E96", "u5099">>,  \* 事前準備
        <<"u6E96", "u5099">>,  \* 準備
        <<"u30AD", "u30C3", "u30AF", "u30AA", "u30D5">>,  \* キックオフ
        <<"u74B0", "u5883", "u69CB", "u7BC9">>,  \* 環境構築
        <<"u30BB", "u30C3", "u30C8", "u30A2", "u30C3", "u30D7">>,  \* セットアップ
        <<"u521D", "u671F", "u8A2D", "u5B9A">>,  \* 初期設定
        <<"u30D7", "u30ED", "u30B8", "u30A7", "u30AF", "u30C8", "u7ACB", "u3061", "u4E0A", "u3052">>,  \* プロジェクト立ち上げ
        <<"u4F53", "u5236">>,  \* 体制
        <<"u8A08", "u753B">>  \* 計画
     >>
  @@ "REQUIREMENTS" :> <<
        <<"u8981", "u4EF6", "u5B9A", "u7FA9">>,  \* 要件定義
        <<"u8981", "u4EF6">>,  \* 要件
        <<"u30D2", "u30A2", "u30EA", "u30F3", "u30B0">>,  \* ヒアリング
        <<"u30CB", "u30FC", "u30BA">>,  \* ニーズ
        <<"u4ED5", "u69D8">>,  \* 仕様
        <<"u8981", "u6C42">>,  \* 要求
        <<"u6A5F", "u80FD", "u5B9A", "u7FA9">>,  \* 機能定義
        <<"u696D", "u52D9", "u5206", "u6790">>,  \* 業務分析
        <<"u8AB2", "u984C", "u6574", "u7406">>,  \* 課題整理
        <<"u30B9", "u30B3", "u30FC", "u30D7">>  \* スコープ
     >>
  @@ "BASIC_DESIGN" :> <<
        <<"u57FA", "u672C", "u8A2D", "u8A08">>,  \* 基本設計
        <<"u8A2D", "u8A08">>,  \* 設計
        <<"u30A2", "u30FC", "u30AD", "u30C6", "u30AF", "u30C1", "u30E3">>,  \* アーキテクチャ
        <<"u69CB", "u6210">>,  \* 構成
        <<"u30B7", "u30B9", "u30C6", "u30E0", "u8A2D", "u8A08">>,  \* システム設計
        <<"u30C7", "u30FC", "u30BF", "u30D9", "u30FC", "u30B9", "u8A2D", "u8A08">>,  \* データベース設計
        <<"A", "P", "I", "u8A2D", "u8A08">>,  \* API設計
        <<"u753B", "u9762", "u8A2D", "u8A08">>,  \* 画面設計
        <<"u30A4", "u30F3", "u30BF", "u30FC", "u30D5", "u30A7", "u30FC", "u30B9">>,  \* インターフェース
        <<"u65B9", "u5F0F", "u8A2D", "u8A08">>  \* 方式設計
     >>
  @@ "IMPLEMENTATION" :> <<
        <<"u5B9F", "u88C5">>,  \* 実装
        <<"u958B", "u767A">>,  \* 開発
        <<"u30B3", "u30FC", "u30C7", "u30A3", "u30F3", "u30B0">>,  \* コーディング
        <<"u30D7", "u30ED", "u30B0", "u30E9", "u30DF", "u30F3", "u30B0">>,  \* プログラミング
        <<"u5B9F", "u88C5">>,  \* 実装
        <<"u69CB", "u7BC9">>,  \* 構築
        <<"u4F5C", "u6210">>,  \* 作成
        <<"u88FD", "u9020">>,  \* 製造
        <<"u30D3", "u30EB", "u30C9">>,  \* ビルド
        <<"A", "P", "I", "u5B9F", "u88C5">>,  \* API実装
        <<"u6A5F", "u80FD", "u5B9F", "u88C5">>  \* 機能実装
     >>
  @@ "TESTING" :> <<
        <<"u30C6", "u30B9", "u30C8">>,  \* テスト
        <<"u8A66", "u9A13">>,  \* 試験
        <<"u30C7", "u30D0", "u30C3", "u30B0">>,  \* デバッグ
        <<"u691C", "u8A3C">>,  \* 検証
        <<"u30D0", "u30B0", "u4FEE", "u6B63">>,  \* バグ修正
        <<"u54C1", "u8CEA", "u4FDD", "u8A3C">>,  \* 品質保証
        <<"Q", "A">>,  \* QA
        <<"U", "T">>,  \* UT
        <<"u5358", "u4F53", "u30C6", "u30B9", "u30C8">>,  \* 単体テスト
        <<"u7D50", "u5408", "u30C6", "u30B9", "u30C8">>,  \* 結合テスト
        <<"E", "2", "E", "u30C6", "u30B9", "u30C8">>,  \* E2Eテスト
        <<"u52D5", "u4F5C", "u78BA", "u8A8D">>  \* 動作確認
     >>
  @@ "RELEASE" :> <<
        <<"u30EA", "u30EA", "u30FC", "u30B9">>,  \* リリース
        <<"u30C7", "u30D7", "u30ED", "u30A4">>,  \* デプロイ
        <<"u516C", "u958B">>,  \* 公開
        <<"u672C", "u756A">>,  \* 本番
        <<"u30ED", "u30FC", "u30F3", "u30C1">>,  \* ローンチ
        <<"u914D", "u7F6E">>,  \* 配置
        <<"u30EA", "u30EA", "u30FC", "u30B9", "u6E96", "u5099">>,  \* リリース準備
        <<"u30AB", "u30C3", "u30C8", "u30AA", "u30FC", "u30D0", "u30FC">>,  \* カットオーバー
        <<"u79FB", "u884C">>  \* 移行
     >>
  @@ "DELIVERY" :> <<
        <<"u7D0D", "u54C1">>,  \* 納品
        <<"u5F15", "u304D", "u6E21", "u3057">>,  \* 引き渡し
        <<"u5B8C", "u4E86", "u5831", "u544A">>,  \* 完了報告
        <<"u30C9", "u30AD", "u30E5", "u30E1", "u30F3", "u30C8", "u4F5C", "u6210">>,  \* ドキュメント作成
        <<"u6210", "u679C", "u7269">>,  \* 成果物
        <<"u7D0D", "u5165">>,  \* 納入
        <<"u5831", "u544A", "u66F8">>,  \* 報告書
        <<"u30DE", "u30CB", "u30E5", "u30A2", "u30EB">>,  \* マニュアル
        <<"u5F15", "u7D99", "u304E">>,  \* 引継ぎ
        <<"u30EC", "u30D3", "u30E5", "u30FC">>  \* レビュー
     >>

\* keyword.lower(), for every keyword of every category
lower_keywords ==
  [c \in Categories |->
     [i \in 1..Len(category_keywords[c]) |-> Lower(category_keywords[c][i])]]

\* _match_keywords: the lengths of the keywords found in the text, summed
RECURSIVE SumMatches(_, _, _)
SumMatches(text, category, i) ==
  IF i > Len(category_keywords[category]) THEN 0
  ELSE (IF IsSubstr(lower_keywords[category][i], text)
        THEN Len(category_keywords[category][i]) ELSE 0)
       + SumMatches(text, category, i + 1)

match_keywords(text, category) == SumMatches(text, category, 1)

\* a search text that takes in the assignee as well
search_text_with_assignee(task) ==
  Lower(task.title)
    \o (IF task.description # NoText
        THEN <<" ">> \o Lower(task.description) ELSE <<>>)
    \o (IF task.assignee # NoText
        THEN <<" ">> \o Lower(task.assignee) ELSE <<>>)

\* title.lower(), then " " and description.lower() when there is a description
search_text(task) ==
  Lower(task.title)
    \o (IF task.description # NoText
        THEN <<" ">> \o Lower(task.description) ELSE <<>>)

\* the last key, in insertion order, of maximal score
best_category_last(scores) ==
  LET top == CHOOSE i \in 1..Len(CategoryEnum) :
               /\ \A j \in 1..Len(CategoryEnum) :
                    scores[CategoryEnum[j]] <= scores[CategoryEnum[i]]
               /\ \A j \in (i + 1)..Len(CategoryEnum) :
                    scores[CategoryEnum[j]] < scores[CategoryEnum[i]]
  IN CategoryEnum[top]

\* max(scores, key=scores.get): the first key, in insertion order, of maximal score
best_category(scores) ==
  LET top == CHOOSE i \in 1..Len(CategoryEnum) :
               /\ \A j \in 1..Len(CategoryEnum) :
                    scores[CategoryEnum[j]] <= scores[CategoryEnum[i]]
               /\ \A j \in 1..(i - 1) :
                    scores[CategoryEnum[j]] < scores[CategoryEnum[i]]
  IN CategoryEnum[top]

detect_category(task) ==
  LET text == search_text(task)
      scores == [c \in Categories |-> match_keywords(text, c)]
      best == best_category(scores)
  IN IF scores[best] > 0 THEN best ELSE DEFAULT_CATEGORY

(***************************************************************************)
(* services/task_merger.py                                                 *)
(***************************************************************************)

CATEGORY_ORDER == CategoryEnum

\* A call's outcome: the returned value, or the exception it raised
Returned(v) == [raised |-> FALSE, value |-> v]
Raised(msg) == [raised |-> TRUE, value |-> msg]

\* _categorize_new_tasks: a task without category gets the detector's result
\* through model_copy (the CategoryEnum member itself); a task with a category
\* is kept as it is, after the debug line that reads task.category.value,
\* which a plain-str category does not have (AttributeError).
categorize_one(task) ==
  IF task.category = None
  THEN [task EXCEPT !.category = detect_category(task), !.category_is_enum = TRUE]
  ELSE task

categorize_new_tasks(new_tasks) ==
  IF \E i \in 1..Len(new_tasks) :
       new_tasks[i].category # None /\ ~new_tasks[i].category_is_enum
  THEN Raised("'str' object has no attribute 'value'")
  ELSE Returned([i \in 1..Len(new_tasks) |-> categorize_one(new_tasks[i])])

\* _group_tasks_by_category(tasks)[category]; the key is absent when no task has it
group_tasks_by_category(tasks, category) ==
  SelectSeq(tasks, LAMBDA t : t.category = category)

RECURSIVE merge_from_new_first(_, _, _)
merge_from_new_first(template_tasks, categorized_new_tasks, i) ==
  IF i > Len(CATEGORY_ORDER) THEN <<>>
  ELSE group_tasks_by_category(categorized_new_tasks, CATEGORY_ORDER[i])
         \o group_tasks_by_category(template_tasks, CATEGORY_ORDER[i])
         \o merge_from_new_first(template_tasks, categorized_new_tasks, i + 1)

\* the loop over CATEGORY_ORDER, from index i on
RECURSIVE merge_from(_, _, _)
merge_from(template_tasks, categorized_new_tasks, i) ==
  IF i > Len(CATEGORY_ORDER) THEN <<>>
  ELSE group_tasks_by_category(template_tasks, CATEGORY_ORDER[i])
         \o group_tasks_by_category(categorized_new_tasks, CATEGORY_ORDER[i])
         \o merge_from(template_tasks, categorized_new_tasks, i + 1)

merge_tasks_unsorted(template_tasks, new_tasks) ==
  LET categorized == categorize_new_tasks(new_tasks)
  IN IF categorized.raised THEN categorized
     ELSE Returned(template_tasks \o categorized.value)

merge_tasks(template_tasks, new_tasks) ==
  LET categorized == categorize_new_tasks(new_tasks)
  IN IF categorized.raised THEN categorized
     ELSE Returned(merge_from(template_tasks, categorized.value, 1))

\* get_category_order_index
get_category_order_index(category) ==
  IF \E i \in 1..Len(CATEGORY_ORDER) : CATEGORY_ORDER[i] = category
  THEN (CHOOSE i \in 1..Len(CATEGORY_ORDER) : CATEGORY_ORDER[i] = category) - 1
  ELSE Len(CATEGORY_ORDER)

\* Task objects.  The heap is the sequence of the Task objects made so far;
\* an object's identity is its index, and a list of tasks is a sequence of
\* identities.

\* a re-categorization that assigns to the task itself
model_copy_in_place(heap, id, category) ==
  [heap |-> [heap EXCEPT ![id].category = category,
                         ![id].category_is_enum = TRUE],
   id |-> id]

\* task.model_copy(update={"category": detected_category}): a new object
model_copy(heap, id, category) ==
  [heap |-> Append(heap, [heap[id] EXCEPT !.category = category,
                                          !.category_is_enum = TRUE]),
   id |-> Len(heap) + 1]

\* _categorize_new_tasks on objects: the heap after the loop, the list built,
\* and whether the loop raised (at the first task whose category is a str)
RECURSIVE categorize_objects(_, _)
categorize_objects(heap, ids) ==
  IF ids = <<>> THEN [heap |-> heap, ids |-> <<>>, raised |-> FALSE]
  ELSE LET task == heap[Head(ids)]
       IN IF task.category # None /\ ~task.category_is_enum
          THEN [heap |-> heap, ids |-> <<>>, raised |-> TRUE]
          ELSE LET first == IF task.category = None
                            THEN model_copy(heap, Head(ids),
                                            detect_category(task))
                            ELSE [heap |-> heap, id |-> Head(ids)]
                   rest == categorize_objects(first.heap, Tail(ids))
               IN [heap |-> rest.heap, ids |-> <<first.id>> \o rest.ids,
                   raised |-> rest.raised]

\* _group_tasks_by_category(tasks)[category] on objects
group_objects_by_category(heap, ids, category) ==
  SelectSeq(ids, LAMBDA id : heap[id].category = category)

RECURSIVE merge_objects_from(_, _, _, _)
merge_objects_from(heap, template_ids, categorized_ids, i) ==
  IF i > Len(CATEGORY_ORDER) THEN <<>>
  ELSE group_objects_by_category(heap, template_ids, CATEGORY_ORDER[i])
         \o group_objects_by_category(heap, categorized_ids, CATEGORY_ORDER[i])
         \o merge_objects_from(heap, template_ids, categorized_ids, i + 1)

\* merge_tasks on objects: the heap after the call and the call's outcome
merge_task_objects(heap, template_ids, new_ids) ==
  LET categorized == categorize_objects(heap, new_ids)
  IN [heap |-> categorized.heap,
      outcome |->
        IF categorized.raised
        THEN Raised("'str' object has no attribute 'value'")
        ELSE Returned(merge_objects_from(categorized.heap, template_ids,
                                         categorized.ids, 1))]

(***************************************************************************)
(* models/metadata.py: FileMetadata and its HttpUrl fields                 *)
(*                                                                         *)
(* parent_url and file_url are pydantic HttpUrl fields: the text is parsed *)
(* as the URL standard says (pydantic-core hands it to the url crate), it  *)
(* must have the scheme http or https, and it is kept in its serialised    *)
(* form.  The operators below follow that parser step by step.  Outside    *)
(* what they define (applying them is an error): a host with a character   *)
(* that is neither ASCII nor in IdnaLetters, and a host with a             *)
(* percent-encoded byte of 128 or more.  A host label that starts with     *)
(* "xn--" is taken as it is written.                                       *)
(***************************************************************************)

\* index of the first occurrence of sub in s, 0 when there is none
IndexOf(sub, s) ==
  IF IsSubstr(sub, s)
  THEN CHOOSE i \in 1..Len(s) :
         /\ i + Len(sub) - 1 <= Len(s)
         /\ SubSeq(s, i, i + Len(sub) - 1) = sub
         /\ \A j \in 1..(i - 1) : SubSeq(s, j, j + Len(sub) - 1) # sub
  ELSE 0

\* s.split(sep) for a one-character separator, the first one at index i if
\* there is one
RECURSIVE split_at(_, _, _)
split_at(s, sep, i) ==
  IF i = 0 THEN <<s>>
  ELSE <<SubSeq(s, 1, i - 1)>>
         \o split_at(SubSeq(s, i + 1, Len(s)), sep,
                     IndexOf(<<sep>>, SubSeq(s, i + 1, Len(s))))

\* s.split(sep) for a one-character separator
Split(s, sep) == split_at(s, sep, IndexOf(<<sep>>, s))

\* sep.join(parts)
RECURSIVE Join(_, _)
Join(parts, sep) ==
  IF parts = <<>> THEN <<>>
  ELSE IF Len(parts) = 1 THEN parts[1]
  ELSE parts[1] \o <<sep>> \o Join(Tail(parts), sep)

\* the first index from i on where s has a character of chars, Len(s) + 1
\* when there is none
FirstIn(s, i, chars) ==
  CHOOSE j \in i..(Len(s) + 1) :
    /\ j = Len(s) + 1 \/ s[j] \in chars
    /\ \A k \in i..(j - 1) : s[k] \notin chars

\* the first index from i on where s has a character outside chars
FirstNotIn(s, i, chars) ==
  CHOOSE j \in i..(Len(s) + 1) :
    /\ j = Len(s) + 1 \/ s[j] \notin chars
    /\ \A k \in i..(j - 1) : s[k] \in chars

\* the last index where s has a character of chars, 0 when there is none
LastIn(s, chars) ==
  CHOOSE j \in 0..Len(s) :
    /\ j = 0 \/ s[j] \in chars
    /\ \A k \in (j + 1)..Len(s) : s[k] \notin chars

\* the last index where s has a character outside chars, 0 when none
LastNotIn(s, chars) ==
  CHOOSE j \in 0..Len(s) :
    /\ j = 0 \/ s[j] \notin chars
    /\ \A k \in (j + 1)..Len(s) : s[k] \in chars

AsciiChars == DOMAIN AsciiCode

AsciiAlpha == {Ascii[i] : i \in (66..91) \cup (98..123)}

AsciiDigit == {Ascii[i] : i \in 49..58}

HexChars == DOMAIN HexValue

\* a str with a surrogate code point cannot be handed to the parser
Surrogates == 55296..57343

\* the bytes of code point n in UTF-8
utf8_bytes(n) ==
  IF n < 128 THEN <<n>>
  ELSE IF n < 2048 THEN <<192 + (n \div 64), 128 + (n % 64)>>
  ELSE IF n < 65536
  THEN <<224 + (n \div 4096), 128 + ((n \div 64) % 64), 128 + (n % 64)>>
  ELSE <<240 + (n \div 262144), 128 + ((n \div 4096) % 64),
         128 + ((n \div 64) % 64), 128 + (n % 64)>>

\* the bytes of c in UTF-8
utf8(c) == utf8_bytes(ord(c))

\* the number of bytes in UTF-8 of the text of the code points codes
utf8_len_of(codes) ==
  Len(codes) + Cardinality({i \in DOMAIN codes : codes[i] >= 128})
    + Cardinality({i \in DOMAIN codes : codes[i] >= 2048})
    + Cardinality({i \in DOMAIN codes : codes[i] >= 65536})

\* the number of bytes of s in UTF-8
utf8_len(s) == utf8_len_of([i \in 1..Len(s) |-> ord(s[i])])

\* the indexes of 1..n that pass the test, in order
indexes_where(n, Test(_)) == SelectSeq([i \in 1..n |-> i], Test)

\* the number of bytes of the UTF-8 sequence a byte starts, 0 for a byte
\* that starts none
utf8_sequence_len(lead) ==
  IF lead < 128 THEN 1
  ELSE IF lead \in 194..223 THEN 2
  ELSE IF lead \in 224..239 THEN 3
  ELSE IF lead \in 240..244 THEN 4
  ELSE 0

utf8_continuation(byte) == byte \in 128..191

\* the indexes of the bytes that are no continuation bytes
utf8_starts(b) == indexes_where(Len(b), LAMBDA i : ~utf8_continuation(b[i]))

\* the bytes from i on are one sequence that ends where the next begins:
\* as long as its first byte says, and neither an overlong form nor beyond
\* U+10FFFF.  The forms of the surrogates pass under the error handler
\* surrogatepass only
utf8_sequence_ok(b, i, next, surrogatepass) ==
  /\ utf8_sequence_len(b[i]) # 0
  /\ i + utf8_sequence_len(b[i]) = next
  /\ b[i] = 224 => b[i + 1] >= 160
  /\ b[i] = 237 => (surrogatepass \/ b[i + 1] <= 159)
  /\ b[i] = 240 => b[i + 1] >= 144
  /\ b[i] = 244 => b[i + 1] <= 143

\* the code point of the sequence at i
utf8_code_point(b, i) ==
  IF b[i] < 128 THEN b[i]
  ELSE IF b[i] < 224 THEN ((b[i] - 192) * 64) + (b[i + 1] - 128)
  ELSE IF b[i] < 240
  THEN ((b[i] - 224) * 4096) + ((b[i + 1] - 128) * 64) + (b[i + 2] - 128)
  ELSE ((b[i] - 240) * 262144) + ((b[i + 1] - 128) * 4096)
         + ((b[i + 2] - 128) * 64) + (b[i + 3] - 128)

\* the sequences that start at starts fill b
utf8_ok(b, starts, surrogatepass) ==
  /\ b # <<>> => starts # <<>> /\ starts[1] = 1
  /\ \A k \in 1..Len(starts) :
       utf8_sequence_ok(b, starts[k],
                        IF k < Len(starts) THEN starts[k + 1] ELSE Len(b) + 1,
                        surrogatepass)

utf8_text(b, starts) ==
  [k \in 1..Len(starts) |-> chr(utf8_code_point(b, starts[k]))]

\* b.decode("utf-8"), or b.decode("utf-8", "surrogatepass")
decode_utf8(b, surrogatepass) ==
  IF utf8_ok(b, utf8_starts(b), surrogatepass)
  THEN Returned(utf8_text(b, utf8_starts(b)))
  ELSE Raised("UnicodeDecodeError")

\* "%XX" for a byte
percent_encode_byte(b) ==
  <<"%", HexDigits[(b \div 16) + 1], HexDigits[(b % 16) + 1]>>

\* The percent-encode sets of the URL standard (each also holds every
\* character above "~")
CONTROLS == {Ascii[i] : i \in 1..32} \cup {Ascii[128]}

FRAGMENT == CONTROLS \cup {" ", "\"", "<", ">", "u0060"}

QUERY == CONTROLS \cup {" ", "\"", "#", "<", ">"}

SPECIAL_QUERY == QUERY \cup {"'"}

PATH == QUERY \cup {"?", "u0060", "{", "}"}

USERINFO ==
  PATH \cup {"/", ":", ";", "=", "@", "[", "\\", "]", "^", "|"}

\* "%XX" for each of bytes
percent_encode_bytes(bytes) ==
  ConcatAll([k \in 1..Len(bytes) |-> percent_encode_byte(bytes[k])])

\* s where the characters outside kept give way to their bytes as "%XX"
percent_encode_but(s, kept) ==
  IF \A i \in 1..Len(s) : s[i] \in kept THEN s
  ELSE ConcatAll([i \in 1..Len(s) |->
         IF s[i] \in kept THEN <<s[i]>>
         ELSE percent_encode_bytes(utf8(s[i]))])

\* utf8_percent_encode: the characters of the set and those that are not
\* ASCII give way to their bytes as "%XX"
utf8_percent_encode(s, encode_set) ==
  percent_encode_but(s, AsciiChars \ encode_set)

\* percent_decode of a host from index i on, hex the values of the digits:
\* the bytes of the text in UTF-8, "%XX" giving way to the byte of that value
RECURSIVE percent_decode_with(_, _, _)
percent_decode_with(s, i, hex) ==
  IF i > Len(s) THEN <<>>
  ELSE IF /\ s[i] = "%"
          /\ i + 2 <= Len(s)
          /\ s[i + 1] \in DOMAIN hex
          /\ s[i + 2] \in DOMAIN hex
  THEN <<(hex[s[i + 1]] * 16) + hex[s[i + 2]]>>
         \o percent_decode_with(s, i + 3, hex)
  ELSE utf8(s[i]) \o percent_decode_with(s, i + 1, hex)

percent_decode_from(s, i) == percent_decode_with(s, i, HexValue)

\* percent_decode(input).decode_utf8_lossy(): the text of the bytes; bytes
\* that are no UTF-8 would be read as U+FFFD, which no host may hold, and
\* raise here
percent_decode(s) ==
  IF \A i \in 1..Len(s) : s[i] # "%" /\ ord(s[i]) \notin Surrogates
  THEN Returned(s)
  ELSE decode_utf8(percent_decode_from(s, 1), FALSE)

\* n in decimal digits
RECURSIVE Decimal(_)
Decimal(n) ==
  IF n < 10 THEN <<HexDigits[n + 1]>>
  ELSE Decimal(n \div 10) \o <<HexDigits[(n % 10) + 1]>>

\* n in hexadecimal digits, in lower case ("{:x}")
RECURSIVE LowerHex(_)
LowerHex(n) ==
  IF n < 16 THEN <<LowerHexDigits[n + 1]>>
  ELSE LowerHex(n \div 16) \o <<LowerHexDigits[(n % 16) + 1]>>

\* The letters a host may have besides ASCII, by code point: Latin, Greek,
\* Cyrillic, Hiragana, Katakana, the CJK ideographs and the Hangul
\* syllables, but for those of IdnaOutside.  Each is either kept by the IDNA
\* mapping or replaced by its lower case, but for those of IdnaDisallowed,
\* which the mapping table marks as disallowed: a host that holds one is an
\* error.
IdnaLetters ==
  (192..383) \cup (902..974) \cup (1024..1269) \cup (12353..12438)
    \cup (12449..12538) \cup {12540} \cup (19968..40869) \cup (44032..55203)

IdnaOutside ==
  {215, 223, 247, 304, 306, 307, 319, 320, 329, 383, 903, 907, 909, 912, 930,
   944, 962, 1154, 1155, 1156, 1157, 1158, 1159, 1160, 1161, 1231}

\* U+04C0, the Cyrillic letter palochka
IdnaDisallowed == {1216}

\* the characters of those code points
IdnaDisallowedChars == {chr(n) : n \in IdnaDisallowed}

\* what the model does not define
Undefined(c) == CHOOSE outcome \in {} : outcome = c

\* the IDNA mapping of the character c of code point n
idna_map_code(c, n) ==
  IF n < 128 THEN (IF n \in 65..90 THEN chr(n + 32) ELSE c)
  ELSE IF n \in IdnaDisallowed THEN c
  ELSE IF n \in IdnaLetters \ IdnaOutside THEN LowerChar(c)[1]
  ELSE Undefined(c)

\* the IDNA mapping of one character of a host
idna_map(c) == idna_map_code(c, ord(c))

\* Punycode (RFC 3492): digit d as a character
puny_digit(d) == IF d < 26 THEN Ascii[98 + d] ELSE Ascii[23 + d]

RECURSIVE puny_adapt_loop(_, _)
puny_adapt_loop(delta, k) ==
  IF delta > 455 THEN puny_adapt_loop(delta \div 35, k + 36)
  ELSE k + ((36 * delta) \div (delta + 38))

puny_damp(d, numpoints) == puny_adapt_loop(d + (d \div numpoints), 0)

puny_adapt(delta, numpoints, first) ==
  puny_damp(IF first THEN delta \div 700 ELSE delta \div 2, numpoints)

\* the threshold of the digit at position k
puny_threshold(k, bias) ==
  IF k <= bias THEN 1 ELSE IF k >= bias + 26 THEN 26 ELSE k - bias

\* q as a generalized variable-length integer
RECURSIVE puny_integer(_, _, _)
puny_digits(q, k, bias, t) ==
  IF q < t THEN <<puny_digit(q)>>
  ELSE <<puny_digit(t + ((q - t) % (36 - t)))>>
         \o puny_integer((q - t) \div (36 - t), k + 36, bias)

puny_integer(q, k, bias) == puny_digits(q, k, bias, puny_threshold(k, bias))

\* one pass over the code points from index j on, for the code point n
RECURSIVE puny_pass(_, _, _, _, _, _, _)
puny_pass(cps, j, n, delta, bias, h, b) ==
  IF j > Len(cps)
  THEN [out |-> <<>>, delta |-> delta, bias |-> bias, h |-> h]
  ELSE IF cps[j] < n THEN puny_pass(cps, j + 1, n, delta + 1, bias, h, b)
  ELSE IF cps[j] = n
  THEN [puny_pass(cps, j + 1, n, 0, puny_adapt(delta, h + 1, h = b), h + 1,
                  b)
          EXCEPT !.out = puny_integer(delta, 36, bias) \o @]
  ELSE puny_pass(cps, j + 1, n, delta, bias, h, b)

\* the least code point of cps that is n or more
puny_least(cps, n) ==
  CHOOSE c \in {cps[i] : i \in {j \in 1..Len(cps) : cps[j] >= n}} :
    \A k \in 1..Len(cps) : cps[k] >= n => c <= cps[k]

RECURSIVE puny_loop(_, _, _, _, _, _)
puny_after(cps, m, pass, b) ==
  pass.out \o puny_loop(cps, m + 1, pass.delta + 1, pass.bias, pass.h, b)

puny_next(cps, n, m, delta, bias, h, b) ==
  puny_after(cps, m,
             puny_pass(cps, 1, m, delta + ((m - n) * (h + 1)), bias, h, b),
             b)

puny_loop(cps, n, delta, bias, h, b) ==
  IF h >= Len(cps) THEN <<>>
  ELSE puny_next(cps, n, puny_least(cps, n), delta, bias, h, b)

puny_encode(basic, cps) ==
  basic \o (IF basic = <<>> THEN <<>> ELSE <<"-">>)
    \o puny_loop(cps, 128, 0, 72, Len(basic), Len(basic))

punycode(label) ==
  puny_encode(SelectSeq(label, LAMBDA c : c \in AsciiChars),
              [i \in 1..Len(label) |-> ord(label[i])])

\* the value of a Punycode digit, 36 for a character that is none
puny_value(c) ==
  IF c \notin AsciiChars THEN 36
  ELSE IF ord(c) \in 97..122 THEN ord(c) - 97
  ELSE IF ord(c) \in 65..90 THEN ord(c) - 65
  ELSE IF ord(c) \in 48..57 THEN ord(c) - 22
  ELSE 36

\* the numbers of the decoder are 32 bits wide; one that passes this bound
\* ends the decoding, as does the code point it would give
PunyMax == 2147483647

\* out with code point n put in before index i + 1
puny_insert(out, i, n) ==
  SubSeq(out, 1, i) \o <<n>> \o SubSeq(out, i + 1, Len(out))

\* Punycode decoding from index pos of s on: out the code points so far, n,
\* i and bias the state of RFC 3492, and within an integer oldi, w and k;
\* nothing when s is no Punycode
RECURSIVE puny_decode_from(_, _, _, _, _, _)
RECURSIVE puny_decode_digit(_, _, _, _, _, _, _, _, _, _, _)
puny_decode_point(s, pos, out, n, i, oldi, bias) ==
  IF n + (i \div (Len(out) + 1)) > 1114111
       \/ (n + (i \div (Len(out) + 1))) \in Surrogates
  THEN Nothing
  ELSE puny_decode_from(s, pos,
                        puny_insert(out, i % (Len(out) + 1),
                                    n + (i \div (Len(out) + 1))),
                        n + (i \div (Len(out) + 1)),
                        (i % (Len(out) + 1)) + 1,
                        puny_adapt(i - oldi, Len(out) + 1, oldi = 0))

puny_decode_digit(s, pos, out, n, i, oldi, bias, w, k, digit, t) ==
  IF digit >= 36 \/ digit > (PunyMax - i) \div w THEN Nothing
  ELSE IF digit < t
  THEN puny_decode_point(s, pos + 1, out, n, i + (digit * w), oldi, bias)
  ELSE IF w > PunyMax \div (36 - t) \/ pos + 1 > Len(s) THEN Nothing
  ELSE puny_decode_digit(s, pos + 1, out, n, i + (digit * w), oldi, bias,
                         w * (36 - t), k + 36, puny_value(s[pos + 1]),
                         puny_threshold(k + 36, bias))

puny_decode_from(s, pos, out, n, i, bias) ==
  IF pos > Len(s) THEN Some(out)
  ELSE puny_decode_digit(s, pos, out, n, i, i, bias, 1, 36, puny_value(s[pos]),
                         puny_threshold(36, bias))

\* the basic code points are those before the last "-", which is skipped
\* when there are some
puny_decode_after(s, delimiter) ==
  IF \E j \in 1..(delimiter - 1) : s[j] \notin AsciiChars THEN Nothing
  ELSE puny_decode_from(s, IF delimiter > 1 THEN delimiter + 1 ELSE 1,
                        [j \in 1..(delimiter - 1) |-> ord(s[j])], 128, 0, 72)

puny_decode(s) == puny_decode_after(s, LastIn(s, {"-"}))

ACE_PREFIX == <<"x", "n", "-", "-">>

has_ace_prefix(label) ==
  Len(label) >= Len(ACE_PREFIX) /\ SubSeq(label, 1, Len(ACE_PREFIX)) = ACE_PREFIX

\* a label that came as "xn--" and Punycode, given the code points it
\* decodes to: no label when it is no Punycode or a code point of it is one
\* the mapping replaces or disallows, else "xn--" and the Punycode of the
\* code points.  One
\* without a code point past ASCII, or with one past the letters of
\* IdnaLetters, is outside the model
ace_label(label, decoded) ==
  IF decoded = Nothing THEN Nothing
  ELSE IF \E j \in 1..Len(TheOne(decoded)) : TheOne(decoded)[j] \in IdnaDisallowed
  THEN Nothing
  ELSE IF \A j \in 1..Len(TheOne(decoded)) : TheOne(decoded)[j] < 128
  THEN Undefined(label)
  ELSE IF \E j \in 1..Len(TheOne(decoded)) :
            /\ TheOne(decoded)[j] >= 128
            /\ TheOne(decoded)[j] \notin IdnaLetters \ IdnaOutside
  THEN Undefined(label)
  ELSE IF \E j \in 1..Len(TheOne(decoded)) :
            /\ TheOne(decoded)[j] >= 128
            /\ idna_map(chr(TheOne(decoded)[j])) # chr(TheOne(decoded)[j])
  THEN Nothing
  ELSE Some(ACE_PREFIX
              \o punycode([j \in 1..Len(TheOne(decoded)) |-> chr(TheOne(decoded)[j])]))

\* a mapped label in ASCII, nothing when it is none: one that is not ASCII
\* is written as "xn--" and its Punycode, and is none when it holds a
\* disallowed character, which the mapping left in it
label_to_ascii(label, ascii) ==
  IF has_ace_prefix(label)
  THEN ace_label(label, puny_decode(SubSeq(label, Len(ACE_PREFIX) + 1, Len(label))))
  ELSE IF \A i \in 1..Len(label) : label[i] \in ascii THEN Some(label)
  ELSE IF \E i \in 1..Len(label) : label[i] \in IdnaDisallowedChars THEN Nothing
  ELSE Some(ACE_PREFIX \o punycode(label))

\* the labels in ASCII, joined again
labels_to_ascii(labels) ==
  IF \E k \in 1..Len(labels) : labels[k] = Nothing THEN Raised("Errors")
  ELSE Returned(Join([k \in 1..Len(labels) |-> TheOne(labels[k])], "."))

mapped_to_ascii(labels, ascii) ==
  labels_to_ascii([k \in 1..Len(labels) |-> label_to_ascii(labels[k], ascii)])

\* domain_to_ascii: every character mapped, and the labels then written in
\* ASCII; it fails when a label holds a disallowed character or cannot be
\* written
domain_to_ascii(domain) ==
  mapped_to_ascii(Split([i \in 1..Len(domain) |-> idna_map(domain[i])], "."),
                  AsciiChars)

\* the forbidden domain code points
ForbiddenDomain ==
  CONTROLS \cup {" ", "#", "%", "/", ":", "<", ">", "?", "@", "[", "\\",
                 "]", "^", "|"}

\* the four bytes of a number, the lowest first, times radix plus digit; the
\* last one is above 255 when the number passes 32 bits
ipv4_byte4(b1, b2, b3, b4) == <<b1 % 256, b2 % 256, b3 % 256, b4>>

ipv4_byte3(bytes, radix, b1, b2, b3) ==
  ipv4_byte4(b1, b2, b3, (bytes[4] * radix) + (b3 \div 256))

ipv4_byte2(bytes, radix, b1, b2) ==
  ipv4_byte3(bytes, radix, b1, b2, (bytes[3] * radix) + (b2 \div 256))

ipv4_byte1(bytes, radix, b1) ==
  ipv4_byte2(bytes, radix, b1, (bytes[2] * radix) + (b1 \div 256))

ipv4_shift(bytes, radix, digit) ==
  ipv4_byte1(bytes, radix, (bytes[1] * radix) + digit)

\* The digits of s from index i on, in the given radix, added to a number
\* held as its four bytes, the lowest first; <<>> when it passes 32 bits
RECURSIVE ipv4_accumulate(_, _, _, _)
ipv4_accumulate(s, i, radix, bytes) ==
  IF bytes[4] > 255 THEN <<>>
  ELSE IF i > Len(s) THEN bytes
  ELSE ipv4_accumulate(s, i + 1, radix,
                       ipv4_shift(bytes, radix, HexValue[s[i]]))

\* the number of digits in the given radix, if they all are of allowed
ipv4_number(digits, radix, allowed) ==
  IF \E i \in 1..Len(digits) : digits[i] \notin allowed
  THEN [ok |-> FALSE]
  ELSE [ok |-> TRUE,
        number |-> ipv4_accumulate(digits, 1, radix, <<0, 0, 0, 0>>)]

\* parse_ipv4number: ok is FALSE for a text that is no number; number is
\* <<>> for a number of more than 32 bits
parse_ipv4number(input) ==
  IF input = <<>> THEN [ok |-> FALSE]
  ELSE IF Len(input) >= 2 /\ input[1] = "0" /\ input[2] \in {"x", "X"}
  THEN ipv4_number(SubSeq(input, 3, Len(input)), 16, HexChars)
  ELSE IF Len(input) >= 2 /\ input[1] = "0"
  THEN ipv4_number(Tail(input), 8,
                   {"0", "1", "2", "3", "4", "5", "6", "7"})
  ELSE ipv4_number(input, 10, AsciiDigit)

\* last is made of decimal digits, or is a number of parse_ipv4number
is_ipv4_number(last) ==
  \/ last # <<>> /\ \A i \in 1..Len(last) : last[i] \in AsciiDigit
  \/ parse_ipv4number(last).ok

last_label(body) == SubSeq(body, LastIn(body, {"."}) + 1, Len(body))

\* ends_in_a_number: the last label, a dot that ends the host apart, is a
\* number
ends_in_a_number(domain) ==
  is_ipv4_number(last_label(IF domain # <<>> /\ domain[Len(domain)] = "."
                            THEN SubSeq(domain, 1, Len(domain) - 1)
                            ELSE domain))

\* the address of the numbers of the n parts of a host, in dotted decimal
ipv4_address(n, numbers) ==
  IF \/ n > 4
     \/ \E k \in 1..n : ~numbers[k].ok \/ numbers[k].number = <<>>
  THEN Nothing
  ELSE IF \/ \E j \in (6 - n)..4 : numbers[n].number[j] # 0
          \/ \E k \in 1..(n - 1) :
               \E j \in 2..4 : numbers[k].number[j] # 0
  THEN Nothing
  ELSE Some(Join([j \in 1..4 |->
                   Decimal(IF j < n THEN numbers[j].number[1]
                           ELSE numbers[n].number[5 - j])], "."))

ipv4_of_parts(parts) ==
  ipv4_address(Len(parts),
               [k \in 1..Len(parts) |-> parse_ipv4number(parts[k])])

without_last_empty(split) ==
  IF split[Len(split)] = <<>> THEN SubSeq(split, 1, Len(split) - 1)
  ELSE split

\* parse_ipv4addr: the address in dotted decimal, if the host is one
parse_ipv4addr(domain) == ipv4_of_parts(without_last_empty(Split(domain, ".")))

NoCompress == 0 - 1

\* the end of the IPv6 parser: the pieces after "::" move to the end
ipv6_finish(pieces, piece, compress) ==
  IF compress # NoCompress
  THEN Some([k \in 1..8 |->
              IF k <= compress THEN pieces[k]
              ELSE IF k > 8 - (piece - compress) THEN pieces[k - (8 - piece)]
              ELSE 0])
  ELSE IF piece # 8 THEN Nothing
  ELSE Some(pieces)

\* the IPv4 ending of an IPv6 address, from index i on, seen numbers read
RECURSIVE ipv6_ipv4(_, _, _, _, _, _)
ipv6_ipv4_number(s, to, pieces, piece, compress, seen, digits, value) ==
  IF \/ digits = <<>>
     \/ Len(digits) > 3
     \/ Len(digits) > 1 /\ digits[1] = "0"
     \/ value[2] # 0
  THEN Nothing
  ELSE ipv6_ipv4(s, to, [pieces EXCEPT ![piece + 1] = (@ * 256) + value[1]],
                 IF seen + 1 \in {2, 4} THEN piece + 1 ELSE piece,
                 compress, seen + 1)

ipv6_ipv4_digits(s, to, pieces, piece, compress, seen, digits) ==
  ipv6_ipv4_number(s, to, pieces, piece, compress, seen, digits,
                   ipv4_accumulate(digits, 1, 10, <<0, 0, 0, 0>>))

ipv6_ipv4_read(s, from, to, pieces, piece, compress, seen) ==
  ipv6_ipv4_digits(s, to, pieces, piece, compress, seen,
                   SubSeq(s, from, to - 1))

ipv6_ipv4_from(s, from, pieces, piece, compress, seen) ==
  ipv6_ipv4_read(s, from, FirstNotIn(s, from, AsciiDigit), pieces, piece,
                 compress, seen)

ipv6_ipv4(s, i, pieces, piece, compress, seen) ==
  IF i > Len(s)
  THEN (IF seen # 4 THEN Nothing ELSE ipv6_finish(pieces, piece, compress))
  ELSE IF seen > 0 /\ ~(s[i] = "." /\ seen < 4) THEN Nothing
  ELSE ipv6_ipv4_from(s, IF seen > 0 THEN i + 1 ELSE i, pieces, piece,
                      compress, seen)

\* the IPv6 parser from index i on: pieces read so far, their number, and
\* the piece at which "::" stood
RECURSIVE ipv6_pieces(_, _, _, _, _)
ipv6_piece_read(s, i, j, pieces, with_piece, piece, compress) ==
  IF j <= Len(s) /\ s[j] = "."
  THEN (IF j = i \/ piece > 6 THEN Nothing
        ELSE ipv6_ipv4(s, i, pieces, piece, compress, 0))
  ELSE IF j <= Len(s) /\ s[j] = ":"
  THEN (IF j + 1 > Len(s) THEN Nothing
        ELSE ipv6_pieces(s, j + 1, with_piece, piece + 1, compress))
  ELSE IF j <= Len(s) THEN Nothing
  ELSE ipv6_pieces(s, j, with_piece, piece + 1, compress)

ipv6_piece_number(s, i, j, pieces, piece, compress, value) ==
  ipv6_piece_read(s, i, j, pieces,
                  [pieces EXCEPT ![piece + 1] = (value[2] * 256) + value[1]],
                  piece, compress)

ipv6_piece_hex(s, i, j, pieces, piece, compress) ==
  ipv6_piece_number(s, i, j, pieces, piece, compress,
                    ipv4_accumulate(SubSeq(s, i, j - 1), 1, 16,
                                    <<0, 0, 0, 0>>))

ipv6_piece_up_to(s, i, stop, pieces, piece, compress) ==
  ipv6_piece_hex(s, i, IF stop > i + 4 THEN i + 4 ELSE stop, pieces, piece,
                 compress)

ipv6_pieces(s, i, pieces, piece, compress) ==
  IF i > Len(s) THEN ipv6_finish(pieces, piece, compress)
  ELSE IF piece = 8 THEN Nothing
  ELSE IF s[i] = ":"
  THEN (IF compress # NoCompress THEN Nothing
        ELSE ipv6_pieces(s, i + 1, pieces, piece + 1, piece + 1))
  ELSE ipv6_piece_up_to(s, i, FirstNotIn(s, i, HexChars), pieces, piece,
                        compress)

\* parse_ipv6addr: the eight pieces, if the text is an IPv6 address
parse_ipv6addr(s) ==
  IF s = <<>> THEN Nothing
  ELSE IF s[1] = ":"
  THEN (IF Len(s) < 2 \/ s[2] # ":" THEN Nothing
        ELSE ipv6_pieces(s, 3, <<0, 0, 0, 0, 0, 0, 0, 0>>, 1, 1))
  ELSE ipv6_pieces(s, 1, <<0, 0, 0, 0, 0, 0, 0, 0>>, 0, NoCompress)

\* the number of zero pieces from piece k on
RECURSIVE zero_run(_, _)
zero_run(pieces, k) ==
  IF k > 8 \/ pieces[k] # 0 THEN 0 ELSE 1 + zero_run(pieces, k + 1)

\* write_ipv6: the first longest run of two or more zero pieces is "::"
RECURSIVE write_ipv6_from(_, _, _)
write_ipv6_from(pieces, k, start) ==
  IF k > 8 THEN <<>>
  ELSE IF k = start
  THEN (IF k = 1 THEN <<":", ":">> ELSE <<":">>)
         \o write_ipv6_from(pieces, k + zero_run(pieces, k), start)
  ELSE LowerHex(pieces[k]) \o (IF k < 8 THEN <<":">> ELSE <<>>)
         \o write_ipv6_from(pieces, k + 1, start)

\* where the first of the longest runs of zero pieces starts, 0 when it has
\* fewer than two pieces
first_longest(runs, longest) ==
  IF longest < 2 THEN 0
  ELSE CHOOSE k \in 1..8 :
         runs[k] = longest /\ \A j \in 1..(k - 1) : runs[j] < longest

longest_run(runs) ==
  first_longest(runs, CHOOSE n \in 0..8 :
                        /\ \E k \in 1..8 : runs[k] = n
                        /\ \A k \in 1..8 : runs[k] <= n)

write_ipv6(pieces) ==
  <<"[">>
    \o write_ipv6_from(pieces, 1,
                       longest_run([k \in 1..8 |-> zero_run(pieces, k)]))
    \o <<"]">>

\* the host of an IPv6 address in brackets
ipv6_host(pieces) ==
  IF pieces = Nothing THEN Nothing ELSE Some(write_ipv6(TheOne(pieces)))

\* the host of a domain
domain_host(domain) ==
  IF domain = <<>> THEN Nothing
  ELSE IF \E i \in 1..Len(domain) : domain[i] \in ForbiddenDomain
  THEN Nothing
  ELSE IF ends_in_a_number(domain) THEN parse_ipv4addr(domain)
  ELSE Some(domain)

\* the host of the domain that domain_to_ascii made, nothing when it failed
ascii_host(ascii_domain) ==
  IF ascii_domain.raised THEN Nothing ELSE domain_host(ascii_domain.value)

\* the host of the percent-decoded domain, nothing when the bytes were no
\* UTF-8
decoded_host(decoded) ==
  IF decoded.raised THEN Nothing ELSE ascii_host(domain_to_ascii(decoded.value))

\* Host::parse: the host as it is serialised, if the text is a host
parse_host(input) ==
  IF input = <<>> THEN Nothing
  ELSE IF input[1] = "["
  THEN (IF input[Len(input)] # "]" THEN Nothing
        ELSE ipv6_host(parse_ipv6addr(SubSeq(input, 2, Len(input) - 1))))
  ELSE decoded_host(percent_decode(input))

\* the end of the host in "host:port": the first ":" outside "[...]"
RECURSIVE host_end(_, _, _)
host_end(s, i, inside) ==
  IF i > Len(s) \/ (s[i] = ":" /\ ~inside) THEN i
  ELSE host_end(s, i + 1,
                IF s[i] = "[" THEN TRUE ELSE IF s[i] = "]" THEN FALSE
                ELSE inside)

MaxPort == 65535

\* the number of the digits from index i on, or the first number above
\* MaxPort they reach
RECURSIVE port_number(_, _, _)
port_number(digits, i, n) ==
  IF i > Len(digits) \/ n > MaxPort THEN n
  ELSE port_number(digits, i + 1, (n * 10) + HexValue[digits[i]])

default_port(scheme) == IF scheme = <<"h", "t", "t", "p">> THEN 80 ELSE 443

\* the port of number n
port_of(n, scheme) ==
  IF n > MaxPort THEN [valid |-> FALSE]
  ELSE [valid |-> TRUE,
        port |-> IF n = default_port(scheme) THEN Nothing ELSE Some(n)]

\* parse_port: the text after "host:"; the port is Nothing when there is
\* none or it is the default one of the scheme
parse_port(digits, scheme) ==
  IF \E i \in 1..Len(digits) : digits[i] \notin AsciiDigit
  THEN [valid |-> FALSE]
  ELSE IF digits = <<>> THEN [valid |-> TRUE, port |-> Nothing]
  ELSE port_of(port_number(digits, 1, 0), scheme)

DoubleDot ==
  {<<".", ".">>,
   <<"%", "2", "e", "%", "2", "e">>, <<"%", "2", "e", "%", "2", "E">>,
   <<"%", "2", "E", "%", "2", "e">>, <<"%", "2", "E", "%", "2", "E">>,
   <<"%", "2", "e", ".">>, <<"%", "2", "E", ".">>,
   <<".", "%", "2", "e">>, <<".", "%", "2", "E">>}

SingleDot == {<<".">>, <<"%", "2", "e">>, <<"%", "2", "E">>}

\* segs with one more segment: "." and ".." are resolved
push_segment(segs, segment, last) ==
  IF segment \in DoubleDot THEN SubSeq(segs, 1, Len(segs) - 1) \o last
  ELSE IF segment \in SingleDot THEN segs \o last
  ELSE Append(segs, segment)

\* parse_path: the segments of raw, the text after the slash that starts the
\* path, added to segs; "." and ".." are resolved on the way
RECURSIVE path_segments(_, _)
path_segments_next(raw, stop, kept) ==
  IF stop <= Len(raw)
  THEN path_segments(SubSeq(raw, stop + 1, Len(raw)), kept)
  ELSE kept

path_segments_up_to(raw, segs, stop) ==
  path_segments_next(
    raw, stop,
    push_segment(segs, utf8_percent_encode(SubSeq(raw, 1, stop - 1), PATH),
                 IF stop <= Len(raw) THEN <<>> ELSE <<<<>>>>))

path_segments(raw, segs) ==
  path_segments_up_to(raw, segs, FirstIn(raw, 1, {"/", "\\"}))

\* the URL when the text is none
Invalid == [valid |-> FALSE]

\* the URL of the parts of a text: the user info ends at its first ":", the
\* path of tail at path_end, its query at query_end
url_of(scheme, userinfo, colon, host, port, tail, path_end, query_end) ==
  IF host = Nothing THEN Invalid
  ELSE IF ~port.valid THEN Invalid
  ELSE [valid |-> TRUE,
        scheme |-> scheme,
        username |-> utf8_percent_encode(SubSeq(userinfo, 1, colon - 1),
                                         USERINFO),
        password |-> utf8_percent_encode(
                       SubSeq(userinfo, colon + 1, Len(userinfo)), USERINFO),
        host |-> TheOne(host),
        port |-> port.port,
        path |-> <<"/">>
                   \o Join(path_segments(SubSeq(tail, 2, path_end - 1),
                                         <<>>), "/"),
        query |-> IF query_end = path_end THEN Nothing
                  ELSE Some(utf8_percent_encode(
                              SubSeq(tail, path_end + 1, query_end - 1),
                              SPECIAL_QUERY)),
        fragment |-> IF query_end > Len(tail) THEN Nothing
                     ELSE Some(utf8_percent_encode(
                                 SubSeq(tail, query_end + 1, Len(tail)),
                                 FRAGMENT))]

url_with_path(scheme, userinfo, host, port, tail, path_end) ==
  url_of(scheme, userinfo, FirstIn(userinfo, 1, {":"}), host, port, tail,
         path_end,
         IF path_end <= Len(tail) /\ tail[path_end] = "?"
         THEN FirstIn(tail, path_end, {"#"}) ELSE path_end)

url_with_host(scheme, userinfo, hostport, end, tail) ==
  url_with_path(scheme, userinfo, parse_host(SubSeq(hostport, 1, end - 1)),
                parse_port(SubSeq(hostport, end + 1, Len(hostport)), scheme),
                tail, FirstIn(tail, 1, {"?", "#"}))

url_with_authority(scheme, authority, at, tail) ==
  url_with_host(scheme, SubSeq(authority, 1, at - 1),
                SubSeq(authority, at + 1, Len(authority)),
                host_end(SubSeq(authority, at + 1, Len(authority)), 1, FALSE),
                tail)

url_after_scheme(scheme, rest, authority_end) ==
  url_with_authority(scheme, SubSeq(rest, 1, authority_end - 1),
                     LastIn(SubSeq(rest, 1, authority_end - 1), {"@"}),
                     SubSeq(rest, authority_end, Len(rest)))

\* the parser after the scheme and the slashes that follow it: the
\* authority ends at the first "/", "?", "#" or "\", the user info at its last
\* "@", the path at the first "?" or "#", the query at the first "#"
parse_after_scheme(scheme, rest) ==
  url_after_scheme(scheme, rest, FirstIn(rest, 1, {"/", "?", "#", "\\"}))

C0ControlOrSpace == {Ascii[i] : i \in 1..33}

SchemeChars == AsciiAlpha \cup AsciiDigit \cup {"+", "-", "."}

allowed_schemes == {<<"h", "t", "t", "p">>, <<"h", "t", "t", "p", "s">>}

max_length == 2083

\* the URL of a text whose scheme ends before index colon
http_url_of_scheme(s, colon, scheme) ==
  IF scheme \notin allowed_schemes THEN Invalid
  ELSE parse_after_scheme(
         scheme, SubSeq(s, FirstNotIn(s, colon + 1, {"/", "\\"}), Len(s)))

http_url_scheme(s, colon) ==
  IF \/ s = <<>>
     \/ s[1] \notin AsciiAlpha
     \/ colon > Len(s)
     \/ s[colon] # ":"
  THEN Invalid
  ELSE http_url_of_scheme(s, colon, Lower(SubSeq(s, 1, colon - 1)))

\* the URL of a text without blanks around it and without tab, CR and LF
http_url_of(s) == http_url_scheme(s, FirstNotIn(s, 1, SchemeChars))

\* u without C0 controls and blanks around it and without tab, CR and LF
trimmed(u, blank) ==
  SelectSeq(SubSeq(u, FirstNotIn(u, 1, blank), LastNotIn(u, blank)),
            LAMBDA c : c \notin {"\t", "\n", "\r"})

\* HttpUrl(u): what the validation of the field makes of the text u.  The
\* blanks around the text and every tab and newline in it are dropped, the
\* scheme ends at the first ":", and any number of slashes may follow it.
HttpUrl(u) ==
  IF \/ u = <<>>
     \/ \E i \in 1..Len(u) : ord(u[i]) \in Surrogates
     \/ utf8_len(u) > max_length
  THEN Invalid
  ELSE http_url_of(trimmed(u, C0ControlOrSpace))

\* HttpUrl validation: the text is a URL of scheme http or https
IsHttpUrl(u) == HttpUrl(u).valid

\* HttpUrl(u).scheme
UrlScheme(u) == HttpUrl(u).scheme

\* HttpUrl(u).host
UrlHost(u) == HttpUrl(u).host

\* the port of url, or the default one of its scheme
port_or_default(url) ==
  IF url.port = Nothing THEN default_port(url.scheme) ELSE TheOne(url.port)

\* HttpUrl(u).port
UrlPort(u) == port_or_default(HttpUrl(u))

\* what stands between "://" and the path in str(url): the user info, the
\* host, and the port when it is not the default one
authority(url) ==
  (IF url.username = <<>> /\ url.password = <<>> THEN <<>>
   ELSE url.username
          \o (IF url.password = <<>> THEN <<>> ELSE <<":">> \o url.password)
          \o <<"@">>)
    \o url.host
    \o (IF url.port = Nothing THEN <<>>
        ELSE <<":">> \o Decimal(TheOne(url.port)))

\* what follows the host and the port in str(url): the path, then "?" and
\* the query and "#" and the fragment, where there is one
path_query_fragment(url) ==
  url.path
    \o (IF url.query = Nothing THEN <<>> ELSE <<"?">> \o TheOne(url.query))
    \o (IF url.fragment = Nothing THEN <<>>
        ELSE <<"#">> \o TheOne(url.fragment))

\* what follows the host and the port in str(HttpUrl(u)): HttpUrl(u).path
\* with "?" and HttpUrl(u).query and "#" and HttpUrl(u).fragment
UrlPath(u) == path_query_fragment(HttpUrl(u))

\* str(url) of a valid HttpUrl
url_str(url) ==
  url.scheme \o <<":", "/", "/">> \o authority(url)
    \o path_query_fragment(url)

\* str(HttpUrl(u)), the form model_dump(mode="json") stores
HttpUrlStr(u) == url_str(HttpUrl(u))

Formats == {"json", "markdown"}

(***************************************************************************)
(* utils/config.py                                                         *)
(***************************************************************************)

\* get_gcs_path: templates/<sha256(file_url.encode())[:16]>/v<version>; the
\* digest is kept symbolic, as the string it was computed from.  A surrogate
\* code point has no UTF-8 form: file_url.encode() raises
get_gcs_path(file_url, version) ==
  IF \E i \in 1..Len(file_url) : ord(file_url[i]) \in Surrogates
  THEN Raised("UnicodeEncodeError")
  ELSE Returned([dir |-> "templates", url_hash |-> file_url, v |-> version])

(***************************************************************************)
(* URLs used as inputs                                                     *)
(***************************************************************************)

\* "https://team.backlog.com/view/P-1"
URL_BACKLOG ==
  <<"h", "t", "t", "p", "s", ":", "/", "/", "t", "e", "a", "m", ".", "b",
    "a", "c", "k", "l", "o", "g", ".", "c", "o", "m", "/", "v", "i", "e",
    "w", "/", "P", "-", "1">>

\* "https://TEAM.backlog.com/view/P-1"
URL_BACKLOG_UPPER ==
  <<"h", "t", "t", "p", "s", ":", "/", "/", "T", "E", "A", "M", ".", "b",
    "a", "c", "k", "l", "o", "g", ".", "c", "o", "m", "/", "v", "i", "e",
    "w", "/", "P", "-", "1">>

\* "https://www.notion.so"
URL_NOTION_ROOT ==
  <<"h", "t", "t", "p", "s", ":", "/", "/", "w", "w", "w", ".", "n", "o",
    "t", "i", "o", "n", ".", "s", "o">>

\* "https://foo.bar.com/view/X"
URL_OTHER ==
  <<"h", "t", "t", "p", "s", ":", "/", "/", "f", "o", "o", ".", "b", "a", "r", ".", "c", "o", "m", "/", "v", "i", "e", "w", "/", "X">>

\* "ftp://team.backlog.com/x"
URL_FTP ==
  <<"f", "t", "p", ":", "/", "/", "t", "e", "a", "m", ".", "b", "a", "c",
    "k", "l", "o", "g", ".", "c", "o", "m", "/", "x">>


(***************************************************************************)
(* processors/converter.py: parse_tasks_from_text                          *)
(***************************************************************************)

\* the characters str.strip() removes and \s matches: those str.isspace()
\* holds of (bidirectional class WS, B or S, or category Zs)
Whitespace ==
  {"\t", "\n", "u000B", "\f", "\r", "u001C", "u001D", "u001E", "u001F", " ",
   "u0085", "u00A0", "u1680", "u2000", "u2001", "u2002", "u2003", "u2004",
   "u2005", "u2006", "u2007", "u2008", "u2009", "u200A", "u2028", "u2029",
   "u202F", "u205F", "u3000"}

RECURSIVE LStrip(_)
LStrip(s) == IF s # <<>> /\ Head(s) \in Whitespace THEN LStrip(Tail(s)) ELSE s

RECURSIVE RStrip(_)
RStrip(s) ==
  IF s # <<>> /\ s[Len(s)] \in Whitespace
  THEN RStrip(SubSeq(s, 1, Len(s) - 1))
  ELSE s

\* s.strip()
Strip(s) == RStrip(LStrip(s))

\* re.match(r"^[-*]\s+(.+)$", stripped) on a stripped line: group(1), if any
bullet_match(stripped) ==
  IF /\ Len(stripped) >= 3
     /\ stripped[1] \in {"-", "*"}
     /\ stripped[2] \in Whitespace
  THEN Some(LStrip(Tail(stripped)))
  ELSE Nothing

\* re.match(r"(.+?):\s*(.+)", part) on a stripped part: the key ends before the
\* first colon that has a character before it and a character after it
kv_match(part) ==
  LET colons == {i \in 2..(Len(part) - 1) : part[i] = ":"}
  IN IF colons = {}
     THEN Nothing
     ELSE LET i == CHOOSE c \in colons : \A d \in colons : c <= d
          IN Some([key |-> Lower(Strip(SubSeq(part, 1, i - 1))),
                   value |-> Strip(LStrip(SubSeq(part, i + 1, Len(part))))])

PRIORITY_KEYS == {<<"u512A", "u5148", "u5EA6">>, <<"p", "r", "i", "o", "r", "i", "t", "y">>}  \* 優先度, priority

ASSIGNEE_KEYS ==  \* 担当, 担当者, assignee
  {<<"u62C5", "u5F53">>, <<"u62C5", "u5F53", "u8005">>,
   <<"a", "s", "s", "i", "g", "n", "e", "e">>}

CATEGORY_KEYS ==  \* カテゴリ, category
  {<<"u30AB", "u30C6", "u30B4", "u30EA">>, <<"c", "a", "t", "e", "g", "o", "r", "y">>}

\* a conversion that gives no category for a text that is no label
parse_category_strict(category_text) ==
  IF \E c \in Categories : CategoryValue[c] = category_text
  THEN CHOOSE c \in Categories : CategoryValue[c] = category_text
  ELSE None

\* _parse_category: the member whose value is the text, else the default
parse_category(category_text) ==
  IF \E c \in Categories : CategoryValue[c] = category_text
  THEN CHOOSE c \in Categories : CategoryValue[c] = category_text
  ELSE DEFAULT_CATEGORY

\* the loop of _parse_task_line over parts[1:], from part i on
RECURSIVE parse_parts(_, _, _)
parse_parts(parts, i, task_dict) ==
  IF i > Len(parts) THEN task_dict
  ELSE LET kv == kv_match(Strip(parts[i]))
           key == TheOne(kv).key
           value == TheOne(kv).value
           next ==
             IF kv = Nothing THEN task_dict
             ELSE IF key \in PRIORITY_KEYS THEN [task_dict EXCEPT !.priority = value]
             ELSE IF key \in ASSIGNEE_KEYS THEN [task_dict EXCEPT !.assignee = value]
             ELSE IF key \in CATEGORY_KEYS
                  THEN [task_dict EXCEPT !.category = parse_category(value)]
             ELSE task_dict
       IN parse_parts(parts, i + 1, next)

\* _parse_task_line: the dict, a key that was not set being NoText or None
parse_task_line(task_text) ==
  LET parts == Split(task_text, "|")
  IN parse_parts(parts, 2,
       [title |-> Strip(parts[1]), description |-> NoText, priority |-> NoText,
        assignee |-> NoText, category |-> None])

\* a str that pydantic takes for a str field with a constraint (min_length,
\* max_length): one without a surrogate code point, which has no UTF-8 form
\* (error type string_unicode); a str field without a constraint takes every
\* str as it is
is_unicode_str(text) == \A i \in 1..Len(text) : ord(text[i]) \notin Surrogates

\* _create_task_from_dict: Task(...) rejects an empty title and a title that
\* holds a surrogate (title has min_length 1); description, priority and
\* assignee are Optional[str] without a constraint and are taken as they are
create_task_from_dict(task_dict) ==
  IF Len(task_dict.title) = 0
  THEN Raised("ValidationError: title: String should have at least 1 character")
  ELSE IF ~is_unicode_str(task_dict.title)
  THEN Raised("ValidationError: string_unicode")
  ELSE Returned(TaskFull(task_dict.title, task_dict.description, task_dict.category,
                         task_dict.priority, task_dict.assignee))

\* the dict saved without the description lines
with_description_dropped(task_dict, description_lines) == task_dict

\* the dict of the current task when it is saved
with_description(task_dict, description_lines) ==
  IF description_lines # <<>>
  THEN [task_dict EXCEPT !.description = Join(description_lines, "\n")]
  ELSE task_dict

\* the loop of parse_tasks_from_text from line i on, and the save of the last
\* task; created holds the outcome of each _create_task_from_dict call
RECURSIVE parse_lines(_, _, _, _, _)
parse_lines(lines, i, created, current_task, description_lines) ==
  LET saved ==
        IF current_task # Nothing
        THEN Append(created,
               create_task_from_dict(with_description(TheOne(current_task),
                                                      description_lines)))
        ELSE created
  IN IF i > Len(lines) THEN saved
     ELSE LET stripped == Strip(lines[i])
              bullet == bullet_match(stripped)
          IN IF bullet # Nothing
             THEN parse_lines(lines, i + 1, saved,
                              Some(parse_task_line(TheOne(bullet))), <<>>)
             ELSE IF current_task # Nothing /\ stripped # <<>>
             THEN parse_lines(lines, i + 1, created, current_task,
                              Append(description_lines, stripped))
             ELSE parse_lines(lines, i + 1, created, current_task, description_lines)

\* parse_tasks_from_text: the tasks, or ValueError when a task cannot be built
\* ("タスクのパースに失敗しました: ...")
parse_tasks_from_text(text) ==
  LET created == parse_lines(Split(text, "\n"), 1, <<>>, Nothing, <<>>)
  IN IF \E k \in 1..Len(created) : created[k].raised
     THEN Raised("ValueError: task parse failed: ValidationError")
     ELSE Returned([k \in 1..Len(created) |-> created[k].value])

(***************************************************************************)
(* utils/validators.py, processors/url_parser.py                           *)
(***************************************************************************)

HasPrefix(s, prefix) ==
  Len(prefix) <= Len(s) /\ SubSeq(s, 1, Len(prefix)) = prefix

\* urllib.parse._UNSAFE_URL_BYTES_TO_REMOVE
UNSAFE_URL_BYTES_TO_REMOVE == {"\t", "\r", "\n"}

\* the characters of s, as a set
chars_of(s) == {s[i] : i \in 1..Len(s)}

\* int(digits, 10)
RECURSIVE int10(_, _, _)
int10(digits, i, n) ==
  IF i > Len(digits) THEN n
  ELSE int10(digits, i + 1, (n * 10) + HexValue[digits[i]])

\* ipaddress.IPv4Address._parse_octet(octet_str) returns a number: decimal
\* digits, at most three, no leading zero, at most 255
parse_octet(octet_str) ==
  /\ octet_str # <<>>
  /\ chars_of(octet_str) \subseteq AsciiDigit
  /\ Len(octet_str) <= 3
  /\ (octet_str = <<"0">> \/ octet_str[1] # "0")
  /\ int10(octet_str, 1, 0) <= 255

\* ipaddress.IPv4Address(ip_str) does not raise
IPv4Address(ip_str) ==
  LET four(octets) == Len(octets) = 4 /\ \A i \in 1..4 : parse_octet(octets[i])
  IN ip_str # <<>> /\ four(Split(ip_str, "."))

\* ipaddress.IPv6Address._parse_hextet(hextet_str) returns a number
parse_hextet(hextet_str) ==
  /\ chars_of(hextet_str) \subseteq HexChars
  /\ Len(hextet_str) <= 4
  /\ hextet_str # <<>>

\* ipaddress.IPv6Address(address) does not raise: an optional scope id after
\* "%", three to nine parts between colons of which the last may be an IPv4
\* address, at most one empty part inside (the "::"), which stands for one
\* hextet or more, and eight hextets when there is none
IPv6Address(address) ==
  LET hextets(parts, parts_hi, parts_lo) ==
        /\ parts[1] = <<>> => parts_hi = 0
        /\ parts[Len(parts)] = <<>> => parts_lo = 0
        /\ 8 - (parts_hi + parts_lo) >= 1
        /\ \A i \in (1..parts_hi) \cup ((Len(parts) - parts_lo + 1)..Len(parts)) :
             parse_hextet(parts[i])
      skipped(parts, skip_index) ==
        hextets(parts,
                IF parts[1] = <<>> THEN skip_index - 2 ELSE skip_index - 1,
                IF parts[Len(parts)] = <<>> THEN Len(parts) - skip_index - 1
                ELSE Len(parts) - skip_index)
      checked(parts, skips) ==
        /\ Len(parts) <= 9
        /\ Cardinality(skips) <= 1
        /\ IF skips # {} THEN skipped(parts, CHOOSE i \in skips : TRUE)
           ELSE /\ Len(parts) = 8
                /\ parts[1] # <<>>
                /\ parts[8] # <<>>
                /\ \A i \in 1..8 : parse_hextet(parts[i])
      of_parts(parts) ==
        checked(parts, {i \in 2..(Len(parts) - 1) : parts[i] = <<>>})
      ipv4_hextets(numbers) ==
        <<LowerHex((numbers[1] * 256) + numbers[2]),
          LowerHex((numbers[3] * 256) + numbers[4])>>
      with_ipv4(split, octets) ==
        SubSeq(split, 1, Len(split) - 1)
          \o ipv4_hextets([k \in 1..4 |-> int10(octets[k], 1, 0)])
      last_part(split, last, ipv4) ==
        /\ ipv4 => IPv4Address(last)
        /\ of_parts(IF ipv4 THEN with_ipv4(split, Split(last, "."))
                    ELSE split)
      last_of(split, last) == last_part(split, last, "." \in chars_of(last))
      split_parts(split) ==
        Len(split) >= 3 /\ last_of(split, split[Len(split)])
      scoped(addr_str, percent, scope_id) ==
        /\ percent # 0 => scope_id # <<>> /\ "%" \notin chars_of(scope_id)
        /\ addr_str # <<>>
        /\ split_parts(Split(addr_str, ":"))
      split_scope_id(percent) ==
        scoped(IF percent = 0 THEN address
               ELSE SubSeq(address, 1, percent - 1),
               percent, SubSeq(address, percent + 1, Len(address)))
  IN "/" \notin chars_of(address)
       /\ split_scope_id(IndexOf(<<"%">>, address))

\* urllib.parse._check_bracketed_host(hostname) does not raise: an IPvFuture
\* address (re.match(r"\Av[a-fA-F0-9]+\..+\Z", hostname)) or an IPv6 address
check_bracketed_host(hostname) ==
  LET ipvfuture(dot) ==
        /\ dot > 2
        /\ dot < Len(hostname)
        /\ hostname[dot] = "."
        /\ \A k \in (dot + 1)..Len(hostname) : hostname[k] # "\n"
  IN IF HasPrefix(hostname, <<"v">>)
     THEN ipvfuture(FirstNotIn(hostname, 2, HexChars))
     ELSE IPv6Address(hostname)

\* hostname, _, port = bracketed.partition("]"): the hostname is checked,
\* and nothing but a port that starts with ":" may follow the bracket
check_bracketed(bracketed, close) ==
  IF close = 0 THEN check_bracketed_host(bracketed)
  ELSE /\ close < Len(bracketed) => bracketed[close + 1] = ":"
       /\ check_bracketed_host(SubSeq(bracketed, 1, close - 1))

\* before_bracket, have_open_br, bracketed = hostname_and_port.partition("["):
\* nothing may stand before the bracket; without a bracket the hostname is
\* what stands before the first ":"
check_hostname_and_port(hostname_and_port, open, colon) ==
  IF open > 0
  THEN /\ open = 1
       /\ check_bracketed(SubSeq(hostname_and_port, 2, Len(hostname_and_port)),
                          IndexOf(<<"]">>,
                                  SubSeq(hostname_and_port, 2,
                                         Len(hostname_and_port))))
  ELSE check_bracketed_host(
         IF colon = 0 THEN hostname_and_port
         ELSE SubSeq(hostname_and_port, 1, colon - 1))

\* urllib.parse._check_bracketed_netloc(netloc) does not raise, as of the
\* CPython releases that have it (3.12.9, 3.13.2, 3.14 and later; the ones
\* before check what stands between the first "[" and the first "]" after
\* it): hostname_and_port = netloc.rpartition("@")[2]
check_bracketed_netloc(netloc) ==
  check_hostname_and_port(
    SubSeq(netloc, LastIn(netloc, {"@"}) + 1, Len(netloc)),
    IndexOf(<<"[">>, SubSeq(netloc, LastIn(netloc, {"@"}) + 1, Len(netloc))),
    IndexOf(<<":">>, SubSeq(netloc, LastIn(netloc, {"@"}) + 1, Len(netloc))))

\* the characters whose NFKC form holds one of "/", "?", "#", "@", ":"
NFKC_DELIMITERS ==
  {"u2047", "u2048", "u2049", "u2100", "u2101", "u2105", "u2106", "u2A74",
   "uFE13", "uFE16", "uFE55", "uFE56", "uFE5F", "uFE6B", "uFF03", "uFF0F",
   "uFF1A", "uFF1F", "uFF20"}

\* urllib.parse._checknetloc(netloc) does not raise
checknetloc(netloc) == chars_of(netloc) \cap NFKC_DELIMITERS = {}

\* urllib.parse.urlsplit(url), of which urlparse(url) takes scheme and netloc:
\* control characters and blanks at the start are stripped, tab, CR and LF
\* dropped everywhere, the scheme is what stands before the first ":" when it
\* starts with a letter and is made of scheme characters, in lower case, and
\* the netloc is what follows "//" up to the first "/", "?" or "#"
urlsplit(u) ==
  LET result(scheme, netloc, chars) ==
        [raised |-> \/ ("[" \in chars) # ("]" \in chars)
                    \/ "[" \in chars /\ ~check_bracketed_netloc(netloc)
                    \/ ~checknetloc(netloc),
         scheme |-> scheme,
         netloc |-> netloc]
      split_netloc(scheme, netloc) == result(scheme, netloc, chars_of(netloc))
      with_scheme(scheme, rest) ==
        split_netloc(scheme,
                     IF HasPrefix(rest, <<"/", "/">>)
                     THEN SubSeq(rest, 3,
                                 FirstIn(rest, 3, {"/", "?", "#"}) - 1)
                     ELSE <<>>)
      split(url, i, has_scheme) ==
        with_scheme(IF has_scheme THEN Lower(SubSeq(url, 1, i - 1)) ELSE <<>>,
                    IF has_scheme THEN SubSeq(url, i + 1, Len(url)) ELSE url)
      scheme_of(url, i) ==
        split(url, i, /\ i > 1
                      /\ url[1] \in AsciiAlpha
                      /\ \A k \in 1..(i - 1) : url[k] \in SchemeChars)
      of(url) == scheme_of(url, IndexOf(<<":">>, url))
  IN of(SelectSeq(SubSeq(u, FirstNotIn(u, 1, C0ControlOrSpace), Len(u)),
                  LAMBDA c : c \notin UNSAFE_URL_BYTES_TO_REMOVE))

\* validate_url returns True: a non-empty URL that urlparse takes, with a
\* scheme and a netloc, whose scheme is http or https
validate_url(url) ==
  LET accepted(result) ==
        /\ ~result.raised
        /\ result.scheme # <<>>
        /\ result.netloc # <<>>
        /\ result.scheme
             \in {<<"h", "t", "t", "p">>, <<"h", "t", "t", "p", "s">>}
  IN url # <<>> /\ accepted(urlsplit(url))

\* what follows the match of "https?://" at the start of url, if it matches
after_https(url) ==
  IF HasPrefix(url, <<"h", "t", "t", "p", "s", ":", "/", "/">>)
  THEN Some(SubSeq(url, 9, Len(url)))
  ELSE IF HasPrefix(url, <<"h", "t", "t", "p", ":", "/", "/">>)
  THEN Some(SubSeq(url, 8, Len(url)))
  ELSE Nothing

BACKLOG_SUFFIXES ==  \* ".backlog.jp", ".backlog.com"
  {<<".", "b", "a", "c", "k", "l", "o", "g", ".", "j", "p">>,
   <<".", "b", "a", "c", "k", "l", "o", "g", ".", "c", "o", "m">>}

\* re.match(r"https?://[^/]+\.backlog\.(jp|com)", url)
backlog_pattern_matches(url) ==
  LET host(seg) ==
        \E k \in 1..Len(seg) : \E suffix \in BACKLOG_SUFFIXES :
          HasPrefix(SubSeq(seg, k + 1, Len(seg)), suffix)
      up_to(rest, slash) ==
        host(IF slash = 0 THEN rest ELSE SubSeq(rest, 1, slash - 1))
      after(rest) ==
        rest # Nothing
          /\ up_to(TheOne(rest), IndexOf(<<"/">>, TheOne(rest)))
  IN after(after_https(url))

\* re.match(r"https?://(www\.)?notion\.so", url)
notion_pattern_matches(url) ==
  LET after(rest) ==
        /\ rest # Nothing
        /\ \/ HasPrefix(TheOne(rest),
                        <<"w", "w", "w", ".", "n", "o", "t", "i", "o", "n",
                          ".", "s", "o">>)
           \/ HasPrefix(TheOne(rest),
                        <<"n", "o", "t", "i", "o", "n", ".", "s", "o">>)
  IN after(after_https(url))

is_backlog_url(url) == validate_url(url) /\ backlog_pattern_matches(url)

is_notion_url(url) == validate_url(url) /\ notion_pattern_matches(url)

\* a message that does not name the URL
unsupported_url_message_fixed(url) ==
  <<"u30B5", "u30DD", "u30FC", "u30C8", "u3055", "u308C", "u3066", "u3044",
    "u306A", "u3044", "U", "R", "L", "u3067", "u3059", ":", " ">>
    \o
  <<"\n", "B", "a", "c", "k", "l", "o", "g", "u307E", "u305F", "u306F", "N",
    "o", "t", "i", "o", "n", "u306E", "U", "R", "L", "u3092", "u6307",
    "u5B9A", "u3057", "u3066", "u304F", "u3060", "u3055", "u3044">>

\* f"サポートされていないURLです: {url}\nBacklogまたはNotionのURLを指定してください"
unsupported_url_message(url) ==
  <<"u30B5", "u30DD", "u30FC", "u30C8", "u3055", "u308C", "u3066", "u3044",
    "u306A", "u3044", "U", "R", "L", "u3067", "u3059", ":", " ">>
    \o url \o
  <<"\n", "B", "a", "c", "k", "l", "o", "g", "u307E", "u305F", "u306F", "N",
    "o", "t", "i", "o", "n", "u306E", "U", "R", "L", "u3092", "u6307",
    "u5B9A", "u3057", "u3066", "u304F", "u3060", "u3055", "u3044">>

\* parse_service_type: the ServiceType member, or ValueError; message is the
\* text of the ValueError for an unsupported URL
parse_service_type(url) ==
  IF ~validate_url(url) THEN Raised("ValueError: URL validation error")
  ELSE IF is_backlog_url(url) THEN Returned("BACKLOG")
  ELSE IF is_notion_url(url) THEN Returned("NOTION")
  ELSE [raised |-> TRUE, value |-> "ValueError: unsupported URL",
        message |-> unsupported_url_message(url)]

(***************************************************************************)
(* State                                                                   *)
(***************************************************************************)

VARIABLES
  template_tasks_in,  \* merge_tasks: the template_tasks argument
  new_tasks_in,       \* merge_tasks: the new_tasks argument
  merged_out,         \* merge_tasks: its outcome, Nothing before the call
  firestore,          \* the metadata collection: documents in insertion order
  gcs,                \* the bucket: path -> blob
  sv,                 \* save_data calls in progress, per caller
  saveLog,            \* finished save_data calls, in the order they finished
  tracker,            \* the tracker project: the names of the items and tasks
                      \* it holds, which BacklogMCPClient neither reads nor changes
  ms,                 \* setup_master_data calls in progress, per caller
  lastRun,            \* the setup_master_data call that finished last, if any
  runsDone,           \* the number of finished setup_master_data calls
  ws,                 \* create_wbs runs, per caller
  dt,                 \* detect_category: two calls, their tasks and outcomes
  pr,                 \* parse_tasks_from_text: the text, its outcome, and the
                      \* outcome of merging the parsed tasks as new tasks
  ur,                 \* parse_service_type: the URL and the outcome of the call
  ht,                 \* wbs_create: whether _services is set, and the last
                      \* request with what was raised in it and its outcome
  mh,                 \* merge_tasks on Task objects: the objects before and
                      \* after the call, the argument lists and the outcome
  rd,                 \* get_data_by_version: the last call, its outcome, and how
                      \* many saves and records preceded it
  rt                  \* _call_mcp: the call in progress or finished

vars ==
  <<template_tasks_in, new_tasks_in, merged_out, firestore, gcs, sv, saveLog,
    tracker, ms, lastRun, runsDone, ws, dt, pr, ur, ht,
    mh, rd, rt>>

mergeVars == <<template_tasks_in, new_tasks_in, merged_out>>
storeVars == <<firestore, gcs, sv, saveLog>>
masterVars == <<tracker, ms, lastRun, runsDone>>
directVars == <<dt, pr, ur, ht, mh, rd, rt>>

Procs == {"p1", "p2"}

EmptyFn == [x \in {} |-> 0]

(***************************************************************************)
(* detect_category called twice, on bounded tasks                          *)
(***************************************************************************)

\* Build, 準備要件, 要件準備, 実装テスト, 設計QA, リリース準備, Layout
DetectTitles ==
  { <<"B", "u", "i", "l", "d">>,
    <<"u6E96", "u5099", "u8981", "u4EF6">>,  \* 準備要件
    <<"u8981", "u4EF6", "u6E96", "u5099">>,  \* 要件準備
    <<"u5B9F", "u88C5", "u30C6", "u30B9", "u30C8">>,  \* 実装テスト
    <<"u8A2D", "u8A08", "Q", "A">>,  \* 設計QA
    <<"u30EA", "u30EA", "u30FC", "u30B9", "u6E96", "u5099">>,  \* リリース準備
    <<"L", "a", "y", "o", "u", "t">> }

\* no description, 実装, QA check
DetectDescriptions ==
  { NoText,
    <<"u5B9F", "u88C5">>,
    <<"Q", "A", " ", "c", "h", "e", "c", "k">> }

\* tasks that differ in title, description and assignee
DetectTasks ==
  { TaskFull(title, description, None, NoText, assignee) :
      title \in DetectTitles, description \in DetectDescriptions,
      assignee \in {NoText, <<"Q", "A">>} }

DetectIdle ==
  dt = [first |-> Nothing, second |-> Nothing,
        first_out |-> Nothing, second_out |-> Nothing]

DetectInit ==
  \E a, b \in DetectTasks :
    dt = [first |-> Some(a), second |-> Some(b),
          first_out |-> Nothing, second_out |-> Nothing]

\* detect_category(task) returns; the code has no raise and no statement that
\* can fail on a str title and an optional str description
DetectFirst ==
  /\ dt.first # Nothing /\ dt.first_out = Nothing
  /\ dt' = [dt EXCEPT !.first_out = Some(Returned(detect_category(TheOne(dt.first))))]

DetectSecond ==
  /\ dt.second # Nothing /\ dt.second_out = Nothing
  /\ dt' = [dt EXCEPT !.second_out = Some(Returned(detect_category(TheOne(dt.second))))]

SeqsUpTo(S, n) == UNION {[1..k -> S] : k \in 0..n}

(***************************************************************************)
(* parse_tasks_from_text applied to bounded texts, and merge_tasks applied *)
(* to the parsed tasks as new tasks with no template task                  *)
(***************************************************************************)

MaxParseLines == 3

ParseLinePool ==
  { <<"-", " ", "A">>,  \* "- A": a bullet
    <<"*", " ", "B", " ", "|", " ", "p", "r", "i", "o", "r", "i", "t", "y", ":", " ", "1">>,  \* "* B | priority: 1": a bullet with a key
    <<"-", " ", "|", " ", "x">>,  \* "- | x": a bullet whose title segment is empty
    <<" ", " ", "n", "o", "t", "e", " ">>,  \* "  note ": a line of text
    <<>>,  \* "": a blank line
    <<"-", "x">>,  \* "-x": no bullet: no space after the dash
    <<"u00A0", "-", "u2003", "E", "u001F">>,  \* a bullet between and around other white space
    <<"-", " ", "C", " ", "|", " ", "c", "a", "t", "e", "g", "o", "r", "y", ":", " ", "u5B9F", "u88C5">>,  \* "- C | category: 実装": a category label
    <<"-", " ", "D", " ", "|", " ", "c", "a", "t", "e", "g", "o", "r", "y", ":", " ", "i", "m", "p", "l">>,  \* "- D | category: impl": no category label
    <<"-", " ", "uD800">>,  \* "- \ud800": a bullet whose title is a lone surrogate
    <<"*", " ", "F", "|", "p", "r", "i", "o", "r", "i", "t", "y", ":", "uDFFF", "|", "p", "r", "i", "o", "r", "i", "t", "y", ":", "2">>,  \* "* F|priority:\udfff|priority:2": a surrogate priority that is replaced
    <<"-", " ", "G", "|", "a", "s", "s", "i", "g", "n", "e", "e", ":", "uDFFF", "|", "c", "a", "t", "e", "g", "o", "r", "y", ":", "uD800">>,  \* "- G|assignee:\udfff|category:\ud800": a surrogate assignee
    <<"-", " ", "H", "|", "c", "a", "t", "e", "g", "o", "r", "y", ":", "uD800", "|", "x", ":", "uD800">>,  \* "- H|category:\ud800|x:\ud800": surrogates in a category text and under an unknown key
    <<"uDBFF", "x">> }  \* "\udbffx": a line of text with a lone surrogate

\* "- Requirements task | priority: High\n- Build feature | category: Implementation"
TEXT_SCENARIO_A ==
  <<"-", " ", "R", "e", "q", "u", "i", "r", "e", "m", "e", "n", "t", "s",
    " ", "t", "a", "s", "k", " ", "|", " ", "p", "r", "i", "o", "r", "i",
    "t", "y", ":", " ", "H", "i", "g", "h", "\n", "-", " ", "B", "u", "i",
    "l", "d", " ", "f", "e", "a", "t", "u", "r", "e", " ", "|", " ", "c",
    "a", "t", "e", "g", "o", "r", "y", ":", " ", "I", "m", "p", "l", "e",
    "m", "e", "n", "t", "a", "t", "i", "o", "n">>

\* the same text with the label of CategoryEnum.IMPLEMENTATION, 実装
TEXT_SCENARIO_A_LABEL ==
  <<"-", " ", "R", "e", "q", "u", "i", "r", "e", "m", "e", "n", "t", "s",
    " ", "t", "a", "s", "k", " ", "|", " ", "p", "r", "i", "o", "r", "i",
    "t", "y", ":", " ", "H", "i", "g", "h", "\n", "-", " ", "B", "u", "i",
    "l", "d", " ", "f", "e", "a", "t", "u", "r", "e", " ", "|", " ", "c",
    "a", "t", "e", "g", "o", "r", "y", ":", " ", "u5B9F", "u88C5">>

\* the texts of up to MaxParseLines lines of the pool, and the two scenario texts
ParseTexts ==
  {Join(lines, "\n") : lines \in SeqsUpTo(ParseLinePool, MaxParseLines)}
    \cup {TEXT_SCENARIO_A, TEXT_SCENARIO_A_LABEL}

ParseIdle == pr = [text |-> NoText, parsed |-> Nothing, merged |-> Nothing]

ParseInit ==
  \E text \in ParseTexts : pr = [text |-> text, parsed |-> Nothing, merged |-> Nothing]

\* converter.parse_tasks_from_text(text) returns or raises
ParseTasks ==
  /\ pr.parsed = Nothing
  /\ pr' = [pr EXCEPT !.parsed = Some(parse_tasks_from_text(pr.text))]

\* task_merger.merge_tasks([], tasks) on the tasks the parser returned
MergeParsed ==
  /\ pr.parsed # Nothing /\ ~TheOne(pr.parsed).raised
  /\ pr.merged = Nothing
  /\ pr' = [pr EXCEPT !.merged = Some(merge_tasks(<<>>, TheOne(pr.parsed).value))]

(***************************************************************************)
(* parse_service_type applied to bounded URLs                              *)
(***************************************************************************)

\* the start of a URL: "https://", "http://", "HTTPS://", "ftp://", ""
UrlSchemes ==
  { <<"h", "t", "t", "p", "s", ":", "/", "/">>,
    <<"h", "t", "t", "p", ":", "/", "/">>,
    <<"H", "T", "T", "P", "S", ":", "/", "/">>,
    <<"f", "t", "p", ":", "/", "/">>,
    <<>> }

\* what follows: "team.backlog.com", "a.backlog.jp", "backlog.com",
\* "www.notion.so", "notion.so", "notion.so.evil.com", "a.backlog.com.evil.org",
\* "notion.so.backlog.com", "TEAM.BACKLOG.COM", "example.com", "",
\* "notion.software", "evil.com?u=.backlog.com"
UrlHosts ==
  { <<"t", "e", "a", "m", ".", "b", "a", "c", "k", "l", "o", "g", ".", "c",
      "o", "m">>,
    <<"a", ".", "b", "a", "c", "k", "l", "o", "g", ".", "j", "p">>,
    <<"b", "a", "c", "k", "l", "o", "g", ".", "c", "o", "m">>,
    <<"w", "w", "w", ".", "n", "o", "t", "i", "o", "n", ".", "s", "o">>,
    <<"n", "o", "t", "i", "o", "n", ".", "s", "o">>,
    <<"n", "o", "t", "i", "o", "n", ".", "s", "o", ".", "e", "v", "i", "l",
      ".", "c", "o", "m">>,
    <<"a", ".", "b", "a", "c", "k", "l", "o", "g", ".", "c", "o", "m", ".",
      "e", "v", "i", "l", ".", "o", "r", "g">>,
    <<"n", "o", "t", "i", "o", "n", ".", "s", "o", ".", "b", "a", "c", "k",
      "l", "o", "g", ".", "c", "o", "m">>,
    <<"T", "E", "A", "M", ".", "B", "A", "C", "K", "L", "O", "G", ".", "C",
      "O", "M">>,
    <<"e", "x", "a", "m", "p", "l", "e", ".", "c", "o", "m">>,
    <<>>,
    <<"n", "o", "t", "i", "o", "n", ".", "s", "o", "f", "t", "w", "a", "r",
      "e">>,
    <<"e", "v", "i", "l", ".", "c", "o", "m", "?", "u", "=", ".", "b", "a",
      "c", "k", "l", "o", "g", ".", "c", "o", "m">> }

\* and after that: "", "/view/P-1"
UrlPaths ==
  { <<>>,
    <<"/", "v", "i", "e", "w", "/", "P", "-", "1">> }

\* the URLs passed to parse_service_type, the empty one among them
ParseUrls ==
  {scheme \o host \o path :
     scheme \in UrlSchemes, host \in UrlHosts, path \in UrlPaths} \cup {<<>>}

UrlIdle == ur = [url |-> NoText, out |-> Nothing]

UrlInit == \E url \in ParseUrls : ur = [url |-> url, out |-> Nothing]

\* url_parser.parse_service_type(url) returns or raises
ParseServiceType ==
  /\ ur.out = Nothing
  /\ ur' = [ur EXCEPT !.out = Some(parse_service_type(ur.url))]

(***************************************************************************)
(* merge_tasks applied to bounded inputs                                   *)
(***************************************************************************)

MaxTemplateTasks == 2
MaxNewTasks == 2

\* a task whose category was set after construction (assignment or
\* model_copy), which keeps the CategoryEnum member
WithMember(task) == [task EXCEPT !.category_is_enum = TRUE]

TaskPool ==
  { Task(<<"u30C6", "u30B9", "u30C8", "u5B9F", "u65BD">>, NoText, None),  \* テスト実施
    Task(<<"B", "u", "i", "l", "d">>, NoText, None),
    Task(<<"D", "e", "p", "l", "o", "y">>, NoText, "RELEASE"),
    Task(<<"K", "i", "c", "k">>, NoText, "PREPARATION"),
    WithMember(Task(<<"I", "m", "p", "l">>, NoText, "IMPLEMENTATION")),
    Task(<<"Q", "A">>, NoText, None),
    Task(<<"T", "e", "s", "t">>, NoText, "TESTING"),
    Task(<<"E", "2", "E">>, NoText, "TESTING") }

\* the template_tasks argument: tasks with a category, and one without
TemplateTaskPool ==
  { t \in TaskPool : t.category # None /\ ~t.category_is_enum }
    \cup { Task(<<"B", "u", "i", "l", "d">>, NoText, None) }

\* the new_tasks argument: tasks without a category, as the parser makes them
\* from a line that names none, and tasks that carry one
NewTaskPool ==
  { t \in TaskPool : t.category = None \/ t.category_is_enum }
    \cup { Task(<<"T", "e", "s", "t">>, NoText, "TESTING") }

MergeIdle ==
  /\ template_tasks_in = <<>>
  /\ new_tasks_in = <<>>
  /\ merged_out = Nothing

MergeInit ==
  /\ template_tasks_in \in SeqsUpTo(TemplateTaskPool, MaxTemplateTasks)
  /\ new_tasks_in \in SeqsUpTo(NewTaskPool, MaxNewTasks)
  /\ merged_out = Nothing

MergeTasks ==
  /\ merged_out = Nothing
  /\ merged_out' = Some(merge_tasks(template_tasks_in, new_tasks_in))
  /\ UNCHANGED <<template_tasks_in, new_tasks_in>>

(***************************************************************************)
(* Python values, json.dumps and json.loads as storage/gcs_client.py       *)
(* calls them                                                              *)
(***************************************************************************)

\* A Python value is a record with one field that names its type: None, a
\* bool, an int, a str (its characters), a list or a tuple (its items), a
\* dict (its items in insertion order, each a key and a value) and an object
\* of any other class.  A float is kept as its repr, which names the float:
\* two floats are the same exactly when their reprs are.  An int of more than
\* MaxIntDigits digits is kept as its decimal numeral.
PyNone == [none |-> TRUE]
PyBool(b) == [bool |-> b]
PyInt(n) == [int |-> n]
PyBigInt(numeral) == [bigint |-> numeral]
PyFloat(repr) == [float |-> repr]
PyStr(s) == [str |-> s]
PyList(items) == [list |-> items]
PyTuple(items) == [tuple |-> items]
PyDict(items) == [dict |-> items]
PyObject(class) == [object |-> class]

PyItem(k, v) == [key |-> k, val |-> v]

PyType(o) == CHOOSE t \in DOMAIN o : TRUE

\* isinstance(data, dict)
is_dict(data) == PyType(data) = "dict"

\* isinstance(data, str)
is_str(data) == PyType(data) = "str"

MaxIntDigits == 9

\* the characters of code 0 to 31
ControlChars == {Ascii[i] : i \in 1..32}

\* str(n): n in decimal digits
int_repr(n) == IF n < 0 THEN <<"-">> \o Decimal(0 - n) ELSE Decimal(n)

\* the texts of parts with sep between them
RECURSIVE JoinTexts(_, _)
JoinTexts(parts, sep) ==
  IF parts = <<>> THEN <<>>
  ELSE IF Len(parts) = 1 THEN parts[1]
  ELSE parts[1] \o sep \o JoinTexts(Tail(parts), sep)

\* ESCAPE_DCT of json.encoder: what a character of a str is written as with
\* ensure_ascii=False
json_escape(c) ==
  IF c = "\"" THEN <<"\\", "\"">>
  ELSE IF c = "\\" THEN <<"\\", "\\">>
  ELSE IF c = "\n" THEN <<"\\", "n">>
  ELSE IF c = "\r" THEN <<"\\", "r">>
  ELSE IF c = "\t" THEN <<"\\", "t">>
  ELSE IF c = "\f" THEN <<"\\", "f">>
  ELSE IF c = "u0008" THEN <<"\\", "b">>
  ELSE IF c \in ControlChars
  THEN <<"\\", "u", "0", "0", LowerHexDigits[(AsciiCode[c] \div 16) + 1],
         LowerHexDigits[(AsciiCode[c] % 16) + 1]>>
  ELSE <<c>>

\* py_encode_basestring
encode_basestring(s) ==
  <<"\"">> \o ConcatAll([i \in 1..Len(s) |-> json_escape(s[i])]) \o <<"\"">>

\* repr(float("nan")), repr(float("inf")), repr(0.0)
FLOAT_NAN == <<"n", "a", "n">>
FLOAT_INF == <<"i", "n", "f">>
FLOAT_ZERO == <<"0", ".", "0">>

\* the float is 0.0 or -0.0
float_is_zero(repr) == repr \in {FLOAT_ZERO, <<"-">> \o FLOAT_ZERO}

\* floatstr of json.encoder, allow_nan being True: NaN, Infinity and
\* -Infinity for the floats that are no numbers, else float.__repr__
floatstr(repr) ==
  IF repr = FLOAT_NAN THEN <<"N", "a", "N">>
  ELSE IF repr = FLOAT_INF THEN <<"I", "n", "f", "i", "n", "i", "t", "y">>
  ELSE IF repr = <<"-">> \o FLOAT_INF
  THEN <<"-", "I", "n", "f", "i", "n", "i", "t", "y">>
  ELSE repr

\* the text json.dumps writes for a value with no items
json_atom(o) ==
  IF PyType(o) = "none" THEN <<"n", "u", "l", "l">>
  ELSE IF PyType(o) = "bool"
  THEN (IF o.bool THEN <<"t", "r", "u", "e">> ELSE <<"f", "a", "l", "s", "e">>)
  ELSE IF PyType(o) = "int" THEN int_repr(o.int)
  ELSE IF PyType(o) = "bigint" THEN o.bigint
  ELSE floatstr(o.float)

PyAtoms == {"none", "bool", "int", "bigint", "float"}

\* a dict key as json.dumps writes it: a str as it is, an int, a float, a
\* bool or None as its JSON text; any other key is a TypeError
is_json_key(k) == PyType(k) \in PyAtoms \cup {"str"}

json_key(k) == IF PyType(k) = "str" THEN k.str ELSE json_atom(k)

\* sys.int_info.default_max_str_digits: int.__repr__ and int(str) raise
\* ValueError for an int of more decimal digits, the sign not counted
default_max_str_digits == 4300

\* the digits of a decimal numeral
int_digits(numeral) ==
  IF numeral # <<>> /\ numeral[1] = "-" THEN Len(numeral) - 1 ELSE Len(numeral)

\* the exception json.dumps raises on a value with no items, None when it
\* writes the value
atom_error(o) ==
  IF PyType(o) = "bigint" /\ int_digits(o.bigint) > default_max_str_digits
  THEN "ValueError"
  ELSE None

\* the exception json.dumps raises on a dict key
key_error(k) == IF is_json_key(k) THEN atom_error(k) ELSE "TypeError"

\* the first of the errors that is one
first_error(errors) ==
  IF \A i \in 1..Len(errors) : errors[i] = None THEN None
  ELSE errors[CHOOSE i \in 1..Len(errors) :
                /\ errors[i] # None
                /\ \A j \in 1..(i - 1) : errors[j] = None]

\* the exception json.dumps raises on the value, None when it writes it: the
\* one of the first item, key or value it cannot write, in the order it
\* writes them
RECURSIVE json_error(_)
json_error(o) ==
  IF PyType(o) \in PyAtoms \cup {"str"} THEN atom_error(o)
  ELSE IF PyType(o) = "list"
  THEN first_error([i \in 1..Len(o.list) |-> json_error(o.list[i])])
  ELSE IF PyType(o) = "tuple"
  THEN first_error([i \in 1..Len(o.tuple) |-> json_error(o.tuple[i])])
  ELSE IF PyType(o) = "dict"
  THEN first_error([i \in 1..(2 * Len(o.dict)) |->
                      IF i % 2 = 1 THEN key_error(o.dict[(i + 1) \div 2].key)
                      ELSE json_error(o.dict[i \div 2].val)])
  ELSE "TypeError"

\* "\n" and the indentation of a nesting level, for indent=2
newline_indent(level) == <<"\n">> \o [i \in 1..(2 * level) |-> " "]

\* "[" or "{", the members each on a line of its own, "]" or "}"
json_block(open, members, close, level) ==
  IF members = <<>> THEN <<open, close>>
  ELSE <<open>> \o newline_indent(level + 1)
         \o JoinTexts(members, <<",">> \o newline_indent(level + 1))
         \o newline_indent(level) \o <<close>>

\* _iterencode of json.encoder for ensure_ascii=False, indent=2: a list and a
\* tuple alike, a dict in the order of its items
RECURSIVE iterencode(_, _)
iterencode(o, level) ==
  IF PyType(o) = "str" THEN encode_basestring(o.str)
  ELSE IF PyType(o) = "list"
  THEN json_block("[", [i \in 1..Len(o.list) |-> iterencode(o.list[i], level + 1)],
                  "]", level)
  ELSE IF PyType(o) = "tuple"
  THEN json_block("[", [i \in 1..Len(o.tuple) |-> iterencode(o.tuple[i], level + 1)],
                  "]", level)
  ELSE IF PyType(o) = "dict"
  THEN json_block("{",
                  [i \in 1..Len(o.dict) |->
                     encode_basestring(json_key(o.dict[i].key)) \o <<":", " ">>
                       \o iterencode(o.dict[i].val, level + 1)],
                  "}", level)
  ELSE json_atom(o)

\* json.dumps(obj, ensure_ascii=False, indent=2)
json_dumps(obj) ==
  IF json_error(obj) = None THEN Returned(iterencode(obj, 0))
  ELSE Raised(json_error(obj))

\* what the scanner made of the text from some index on: nothing, or a value
\* and the index after it; IntTooLong when int(...) of a numeral raised
NoParse == [ok |-> FALSE, py |-> PyNone, at |-> 0, error |-> "JSONDecodeError"]
IntTooLong == [ok |-> FALSE, py |-> PyNone, at |-> 0, error |-> "ValueError"]
Parsed(v, at) == [ok |-> TRUE, py |-> v, at |-> at, error |-> None]

\* WHITESPACE of json.decoder
JsonWhitespace == {" ", "\t", "\n", "\r"}

\* the first index from i on where s has no JSON white space
skip_ws(s, i) == FirstNotIn(s, i, JsonWhitespace)

\* s[i:i + len(word)] == word
starts_at(s, i, word) ==
  i + Len(word) - 1 <= Len(s) /\ SubSeq(s, i, i + Len(word) - 1) = word

\* BACKSLASH of json.decoder
BACKSLASH ==
  "\"" :> "\"" @@ "\\" :> "\\" @@ "/" :> "/" @@ "b" :> "u0008" @@ "f" :> "\f"
    @@ "n" :> "\n" @@ "r" :> "\r" @@ "t" :> "\t"

\* the four characters from i on are hexadecimal digits
is_hex4(s, i) == i + 3 <= Len(s) /\ \A k \in i..(i + 3) : s[k] \in HexChars

hex4(s, i) ==
  (HexValue[s[i]] * 4096) + (HexValue[s[i + 1]] * 256)
    + (HexValue[s[i + 2]] * 16) + HexValue[s[i + 3]]

\* a "\uXXXX" of a high surrogate at i followed by a "\uXXXX" at i + 6
is_high_then_escape(s, i) ==
  /\ hex4(s, i + 2) \in 55296..56319
  /\ starts_at(s, i + 6, <<"\\", "u">>)
  /\ i + 12 <= Len(s)

\* scanstring: the str whose opening quote is before index i; acc holds the
\* characters read so far.  A control character, an unknown escape and the
\* end of the text are errors; the two escapes of a surrogate pair give one
\* character, a lone surrogate stays
\* where the run of plain characters from i on ends: at the closing quote, a
\* backslash, a control character, or the end of the text
chunk_end(s, i) == FirstIn(s, i, {"\"", "\\"} \cup ControlChars)

RECURSIVE scanstring(_, _, _)
RECURSIVE scan_escape(_, _, _)
scanstring(s, i, acc) ==
  scan_escape(s, chunk_end(s, i), acc \o SubSeq(s, i, chunk_end(s, i) - 1))

\* the character at i ends the string, is an error, or starts an escape
scan_escape(s, i, acc) ==
  IF i > Len(s) THEN NoParse
  ELSE IF s[i] = "\"" THEN Parsed(PyStr(acc), i + 1)
  ELSE IF s[i] \in ControlChars THEN NoParse
  ELSE IF i + 1 > Len(s) THEN NoParse
  ELSE IF s[i + 1] \in DOMAIN BACKSLASH
  THEN scanstring(s, i + 2, Append(acc, BACKSLASH[s[i + 1]]))
  ELSE IF s[i + 1] # "u" \/ ~is_hex4(s, i + 2) THEN NoParse
  ELSE IF ~is_high_then_escape(s, i)
  THEN scanstring(s, i + 6, Append(acc, chr(hex4(s, i + 2))))
  ELSE IF ~is_hex4(s, i + 8) THEN NoParse
  ELSE IF hex4(s, i + 8) \in 56320..57343
  THEN scanstring(s, i + 12,
                  Append(acc, chr(65536 + ((hex4(s, i + 2) - 55296) * 1024)
                                    + (hex4(s, i + 8) - 56320))))
  ELSE scanstring(s, i + 6, Append(acc, chr(hex4(s, i + 2))))

\* the number that the decimal digits s[i..j - 1] are
RECURSIVE int_of(_, _, _, _)
int_of(s, i, j, n) ==
  IF i >= j THEN n ELSE int_of(s, i + 1, j, (n * 10) + HexValue[s[i]])

\* NUMBER_RE of json.scanner: the index after the integer part that starts
\* at d ("0", or a digit other than 0 and the digits after it), after the
\* fraction at i, and after the exponent at i
int_end(s, d) == IF s[d] = "0" THEN d + 1 ELSE FirstNotIn(s, d, AsciiDigit)

frac_end(s, i) ==
  IF i + 1 <= Len(s) /\ s[i] = "." /\ s[i + 1] \in AsciiDigit
  THEN FirstNotIn(s, i + 1, AsciiDigit)
  ELSE i

exp_digits(s, i) ==
  IF i + 1 <= Len(s) /\ s[i + 1] \in {"+", "-"} THEN i + 2 ELSE i + 1

exp_end(s, i) ==
  IF /\ i <= Len(s)
     /\ s[i] \in {"e", "E"}
     /\ exp_digits(s, i) <= Len(s)
     /\ s[exp_digits(s, i)] \in AsciiDigit
  THEN FirstNotIn(s, exp_digits(s, i), AsciiDigit)
  ELSE i

\* sys.float_info.dig: a decimal of this many significant digits or fewer,
\* between the least normal float and the greatest float, names one float,
\* and no two of them name the same
FLOAT_DIG == 15

\* the digits of 2^1024 - 2^970, which is 0.d1d2... * 10^309: the least number
\* that float() rounds to inf
OverflowPoint == 309
OverflowDigits ==
  <<"1", "7", "9", "7", "6", "9", "3", "1", "3", "4", "8", "6", "2", "3", "1", "5", "8", "0", "7", "9", "3", "7", "2", "8",
    "9", "7", "1", "4", "0", "5", "3", "0", "3", "4", "1", "5", "0", "7", "9", "9", "3", "4", "1", "3", "2", "7", "1", "0",
    "0", "3", "7", "8", "2", "6", "9", "3", "6", "1", "7", "3", "7", "7", "8", "9", "8", "0", "4", "4", "4", "9", "6", "8",
    "2", "9", "2", "7", "6", "4", "7", "5", "0", "9", "4", "6", "6", "4", "9", "0", "1", "7", "9", "7", "7", "5", "8", "7",
    "2", "0", "7", "0", "9", "6", "3", "3", "0", "2", "8", "6", "4", "1", "6", "6", "9", "2", "8", "8", "7", "9", "1", "0",
    "9", "4", "6", "5", "5", "5", "5", "4", "7", "8", "5", "1", "9", "4", "0", "4", "0", "2", "6", "3", "0", "6", "5", "7",
    "4", "8", "8", "6", "7", "1", "5", "0", "5", "8", "2", "0", "6", "8", "1", "9", "0", "8", "9", "0", "2", "0", "0", "0",
    "7", "0", "8", "3", "8", "3", "6", "7", "6", "2", "7", "3", "8", "5", "4", "8", "4", "5", "8", "1", "7", "7", "1", "1",
    "5", "3", "1", "7", "6", "4", "4", "7", "5", "7", "3", "0", "2", "7", "0", "0", "6", "9", "8", "5", "5", "5", "7", "1",
    "3", "6", "6", "9", "5", "9", "6", "2", "2", "8", "4", "2", "9", "1", "4", "8", "1", "9", "8", "6", "0", "8", "3", "4",
    "9", "3", "6", "4", "7", "5", "2", "9", "2", "7", "1", "9", "0", "7", "4", "1", "6", "8", "4", "4", "4", "3", "6", "5",
    "5", "1", "0", "7", "0", "4", "3", "4", "2", "7", "1", "1", "5", "5", "9", "6", "9", "9", "5", "0", "8", "0", "9", "3",
    "0", "4", "2", "8", "8", "0", "1", "7", "7", "9", "0", "4", "1", "7", "4", "4", "9", "7", "7", "9", "2">>

\* the digits of 2^-1075, which is 0.d1d2... * 10^-323: the greatest number
\* that float() rounds to 0.0
UnderflowPoint == 0 - 323
UnderflowDigits ==
  <<"2", "4", "7", "0", "3", "2", "8", "2", "2", "9", "2", "0", "6", "2", "3", "2", "7", "2", "0", "8", "8", "2", "8", "4",
    "3", "9", "6", "4", "3", "4", "1", "1", "0", "6", "8", "6", "1", "8", "2", "5", "2", "9", "9", "0", "1", "3", "0", "7",
    "1", "6", "2", "3", "8", "2", "2", "1", "2", "7", "9", "2", "8", "4", "1", "2", "5", "0", "3", "3", "7", "7", "5", "3",
    "6", "3", "5", "1", "0", "4", "3", "7", "5", "9", "3", "2", "6", "4", "9", "9", "1", "8", "1", "8", "0", "8", "1", "7",
    "9", "9", "6", "1", "8", "9", "8", "9", "8", "2", "8", "2", "3", "4", "7", "7", "2", "2", "8", "5", "8", "8", "6", "5",
    "4", "6", "3", "3", "2", "8", "3", "5", "5", "1", "7", "7", "9", "6", "9", "8", "9", "8", "1", "9", "9", "3", "8", "7",
    "3", "9", "8", "0", "0", "5", "3", "9", "0", "9", "3", "9", "0", "6", "3", "1", "5", "0", "3", "5", "6", "5", "9", "5",
    "1", "5", "5", "7", "0", "2", "2", "6", "3", "9", "2", "2", "9", "0", "8", "5", "8", "3", "9", "2", "4", "4", "9", "1",
    "0", "5", "1", "8", "4", "4", "3", "5", "9", "3", "1", "8", "0", "2", "8", "4", "9", "9", "3", "6", "5", "3", "6", "1",
    "5", "2", "5", "0", "0", "3", "1", "9", "3", "7", "0", "4", "5", "7", "6", "7", "8", "2", "4", "9", "2", "1", "9", "3",
    "6", "5", "6", "2", "3", "6", "6", "9", "8", "6", "3", "6", "5", "8", "4", "8", "0", "7", "5", "7", "0", "0", "1", "5",
    "8", "5", "7", "6", "9", "2", "6", "9", "9", "0", "3", "7", "0", "6", "3", "1", "1", "9", "2", "8", "2", "7", "9", "5",
    "5", "8", "5", "5", "1", "3", "3", "2", "9", "2", "7", "8", "3", "4", "3", "3", "8", "4", "0", "9", "3", "5", "1", "9",
    "7", "8", "0", "1", "5", "5", "3", "1", "2", "4", "6", "5", "9", "7", "2", "6", "3", "5", "7", "9", "5", "7", "4", "6",
    "2", "2", "7", "6", "6", "4", "6", "5", "2", "7", "2", "8", "2", "7", "2", "2", "0", "0", "5", "6", "3", "7", "4", "0",
    "0", "6", "4", "8", "5", "4", "9", "9", "9", "7", "7", "0", "9", "6", "5", "9", "9", "4", "7", "0", "4", "5", "4", "0",
    "2", "0", "8", "2", "8", "1", "6", "6", "2", "2", "6", "2", "3", "7", "8", "5", "7", "3", "9", "3", "4", "5", "0", "7",
    "3", "6", "3", "3", "9", "0", "0", "7", "9", "6", "7", "7", "6", "1", "9", "3", "0", "5", "7", "7", "5", "0", "6", "7",
    "4", "0", "1", "7", "6", "3", "2", "4", "6", "7", "3", "6", "0", "0", "9", "6", "8", "9", "5", "1", "3", "4", "0", "5",
    "3", "5", "5", "3", "7", "4", "5", "8", "5", "1", "6", "6", "6", "1", "1", "3", "4", "2", "2", "3", "7", "6", "6", "6",
    "7", "8", "6", "0", "4", "1", "6", "2", "1", "5", "9", "6", "8", "0", "4", "6", "1", "9", "1", "4", "4", "6", "7", "2",
    "9", "1", "8", "4", "0", "3", "0", "0", "5", "3", "0", "0", "5", "7", "5", "3", "0", "8", "4", "9", "0", "4", "8", "7",
    "6", "5", "3", "9", "1", "7", "1", "1", "3", "8", "6", "5", "9", "1", "6", "4", "6", "2", "3", "9", "5", "2", "4", "9",
    "1", "2", "6", "2", "3", "6", "5", "3", "8", "8", "1", "8", "7", "9", "6", "3", "6", "2", "3", "9", "3", "7", "3", "2",
    "8", "0", "4", "2", "3", "8", "9", "1", "0", "1", "8", "6", "7", "2", "3", "4", "8", "4", "9", "7", "6", "6", "8", "2",
    "3", "5", "0", "8", "9", "8", "6", "3", "3", "8", "8", "5", "8", "7", "9", "2", "5", "6", "2", "8", "3", "0", "2", "7",
    "5", "5", "9", "9", "5", "6", "5", "7", "5", "2", "4", "4", "5", "5", "5", "0", "7", "2", "5", "5", "1", "8", "9", "3",
    "1", "3", "6", "9", "0", "8", "3", "6", "2", "5", "4", "7", "7", "9", "1", "8", "6", "9", "4", "8", "6", "6", "7", "9",
    "9", "4", "9", "6", "8", "3", "2", "4", "0", "4", "9", "7", "0", "5", "8", "2", "1", "0", "2", "8", "5", "1", "3", "1",
    "8", "5", "4", "5", "1", "3", "9", "6", "2", "1", "3", "8", "3", "7", "7", "2", "2", "8", "2", "6", "1", "4", "5", "4",
    "3", "7", "6", "9", "3", "4", "1", "2", "5", "3", "2", "0", "9", "8", "5", "9", "1", "3", "2", "7", "6", "6", "7", "2",
    "3", "6", "3", "2", "8", "1", "2", "5">>

\* the digits of 2^-1022, which is 0.d1d2... * 10^-307: the least normal float
MinNormalPoint == 0 - 307
MinNormalDigits ==
  <<"2", "2", "2", "5", "0", "7", "3", "8", "5", "8", "5", "0", "7", "2", "0", "1", "3", "8", "3", "0", "9", "0", "2", "3",
    "2", "7", "1", "7", "3", "3", "2", "4", "0", "4", "0", "6", "4", "2", "1", "9", "2", "1", "5", "9", "8", "0", "4", "6",
    "2", "3", "3", "1", "8", "3", "0", "5", "5", "3", "3", "2", "7", "4", "1", "6", "8", "8", "7", "2", "0", "4", "4", "3",
    "4", "8", "1", "3", "9", "1", "8", "1", "9", "5", "8", "5", "4", "2", "8", "3", "1", "5", "9", "0", "1", "2", "5", "1",
    "1", "0", "2", "0", "5", "6", "4", "0", "6", "7", "3", "3", "9", "7", "3", "1", "0", "3", "5", "8", "1", "1", "0", "0",
    "5", "1", "5", "2", "4", "3", "4", "1", "6", "1", "5", "5", "3", "4", "6", "0", "1", "0", "8", "8", "5", "6", "0", "1",
    "2", "3", "8", "5", "3", "7", "7", "7", "1", "8", "8", "2", "1", "1", "3", "0", "7", "7", "7", "9", "9", "3", "5", "3",
    "2", "0", "0", "2", "3", "3", "0", "4", "7", "9", "6", "1", "0", "1", "4", "7", "4", "4", "2", "5", "8", "3", "6", "3",
    "6", "0", "7", "1", "9", "2", "1", "5", "6", "5", "0", "4", "6", "9", "4", "2", "5", "0", "3", "7", "3", "4", "2", "0",
    "8", "3", "7", "5", "2", "5", "0", "8", "0", "6", "6", "5", "0", "6", "1", "6", "6", "5", "8", "1", "5", "8", "9", "4",
    "8", "7", "2", "0", "4", "9", "1", "1", "7", "9", "9", "6", "8", "5", "9", "1", "6", "3", "9", "6", "4", "8", "5", "0",
    "0", "6", "3", "5", "9", "0", "8", "7", "7", "0", "1", "1", "8", "3", "0", "4", "8", "7", "4", "7", "9", "9", "7", "8",
    "0", "8", "8", "7", "7", "5", "3", "7", "4", "9", "9", "4", "9", "4", "5", "1", "5", "8", "0", "4", "5", "1", "6", "0",
    "5", "0", "5", "0", "9", "1", "5", "3", "9", "9", "8", "5", "6", "5", "8", "2", "4", "7", "0", "8", "1", "8", "6", "4",
    "5", "1", "1", "3", "5", "3", "7", "9", "3", "5", "8", "0", "4", "9", "9", "2", "1", "1", "5", "9", "8", "1", "0", "8",
    "5", "7", "6", "6", "0", "5", "1", "9", "9", "2", "4", "3", "3", "3", "5", "2", "1", "1", "4", "3", "5", "2", "3", "9",
    "0", "1", "4", "8", "7", "9", "5", "6", "9", "9", "6", "0", "9", "5", "9", "1", "2", "8", "8", "8", "9", "1", "6", "0",
    "2", "9", "9", "2", "6", "4", "1", "5", "1", "1", "0", "6", "3", "4", "6", "6", "3", "1", "3", "3", "9", "3", "6", "6",
    "3", "4", "7", "7", "5", "8", "6", "5", "1", "3", "0", "2", "9", "3", "7", "1", "7", "6", "2", "0", "4", "7", "3", "2",
    "5", "6", "3", "1", "7", "8", "1", "4", "8", "5", "6", "6", "4", "3", "5", "0", "8", "7", "2", "1", "2", "2", "8", "2",
    "8", "6", "3", "7", "6", "4", "2", "0", "4", "4", "8", "4", "6", "8", "1", "1", "4", "0", "7", "6", "1", "3", "9", "1",
    "1", "4", "7", "7", "0", "6", "2", "8", "0", "1", "6", "8", "9", "8", "5", "3", "2", "4", "4", "1", "1", "0", "0", "2",
    "4", "1", "6", "1", "4", "4", "7", "4", "2", "1", "6", "1", "8", "5", "6", "7", "1", "6", "6", "1", "5", "0", "5", "4",
    "0", "1", "5", "4", "2", "8", "5", "0", "8", "4", "7", "1", "6", "7", "5", "2", "9", "0", "1", "9", "0", "3", "1", "6",
    "1", "3", "2", "2", "7", "7", "8", "8", "9", "6", "7", "2", "9", "7", "0", "7", "3", "7", "3", "1", "2", "3", "3", "3",
    "4", "0", "8", "6", "9", "8", "8", "9", "8", "3", "1", "7", "5", "0", "6", "7", "8", "3", "8", "8", "4", "6", "9", "2",
    "6", "0", "9", "2", "7", "7", "3", "9", "7", "7", "9", "7", "2", "8", "5", "8", "6", "5", "9", "6", "5", "4", "9", "4",
    "1", "0", "9", "1", "3", "6", "9", "0", "9", "5", "4", "0", "6", "1", "3", "6", "4", "6", "7", "5", "6", "8", "7", "0",
    "2", "3", "9", "8", "6", "7", "8", "3", "1", "5", "2", "9", "0", "6", "8", "0", "9", "8", "4", "6", "1", "7", "2", "1",
    "0", "9", "2", "4", "6", "2", "5", "3", "9", "6", "7", "2", "8", "5", "1", "5", "6", "2", "5">>

\* the digit of the fraction 0.a at place i
digit_at(a, i) == IF i <= Len(a) THEN HexValue[a[i]] ELSE 0

\* the first place where the fractions 0.a and 0.b differ, 0 when they are equal
first_difference(a, b) ==
  LET places == {i \in 1..(Len(a) + Len(b)) : digit_at(a, i) # digit_at(b, i)}
  IN IF places = {} THEN 0
     ELSE CHOOSE i \in places : \A j \in places : i <= j

\* 0.a * 10^p < 0.b * 10^q, for digit sequences that start with another digit
\* than 0
less_than(a, p, b, q) ==
  IF p # q THEN p < q
  ELSE /\ first_difference(a, b) # 0
       /\ digit_at(a, first_difference(a, b)) < digit_at(b, first_difference(a, b))

\* n zeros
zeros(n) == [i \in 1..n |-> "0"]

\* format_float_short of pystrtod.c for repr: the digits sig, which are the
\* number 0.sig * 10^decpt, written with an exponent when decpt <= -4 or
\* decpt > 16, and with ".0" after digits that reach the point
float_digits_repr(sig, decpt) ==
  IF decpt > 0 - 4 /\ decpt <= 16
  THEN (IF decpt <= 0 THEN <<"0", ".">> \o zeros(0 - decpt) \o sig
        ELSE IF decpt >= Len(sig)
        THEN sig \o zeros(decpt - Len(sig)) \o <<".", "0">>
        ELSE SubSeq(sig, 1, decpt) \o <<".">> \o SubSeq(sig, decpt + 1, Len(sig)))
  ELSE <<sig[1]>> \o (IF Len(sig) > 1 THEN <<".">> \o Tail(sig) ELSE <<>>)
         \o <<"e">>
         \o (IF decpt - 1 < 0
             THEN <<"-">> \o (IF 1 - decpt < 10 THEN <<"0">> ELSE <<>>)
                    \o Decimal(1 - decpt)
             ELSE <<"+">> \o (IF decpt - 1 < 10 THEN <<"0">> ELSE <<>>)
                    \o Decimal(decpt - 1))

\* repr of the float nearest to 0.sig * 10^decpt, sig starting and ending with
\* another digit than 0: 0.0 up to 2^-1075, inf from 2^1024 - 2^970 on, and
\* the number itself when it has FLOAT_DIG digits or fewer and is no less than
\* the least normal float.  The floats of the other numbers, whose repr takes
\* the binary expansion of the number, are outside the model
float_magnitude_repr(sig, decpt) ==
  IF ~less_than(UnderflowDigits, UnderflowPoint, sig, decpt) THEN FLOAT_ZERO
  ELSE IF ~less_than(sig, decpt, OverflowDigits, OverflowPoint) THEN FLOAT_INF
  ELSE IF Len(sig) <= FLOAT_DIG /\ ~less_than(sig, decpt, MinNormalDigits, MinNormalPoint)
  THEN float_digits_repr(sig, decpt)
  ELSE Undefined(<<sig, decpt>>)

\* the exponent a numeral gives with these digits after "e": too many digits
\* to count are an exponent beyond every float
MaxExponentDigits == 9
HugeExponent == 1000000000

exponent_of(negative, digits) ==
  LET significant == SubSeq(digits, FirstNotIn(digits, 1, {"0"}), Len(digits))
      n == IF Len(significant) > MaxExponentDigits THEN HugeExponent
           ELSE int10(significant, 1, 0)
  IN IF negative THEN 0 - n ELSE n

\* repr(float(numeral)) of a numeral with the digits all before and after
\* its point, point of them before it, and the exponent exponent; a number of
\* which every digit is 0 is 0.0 or -0.0
float_repr_of(negative, all, point, exponent) ==
  LET first == FirstNotIn(all, 1, {"0"})
      last == LastNotIn(all, {"0"})
  IN (IF negative THEN <<"-">> ELSE <<>>)
       \o (IF first > Len(all) THEN FLOAT_ZERO
           ELSE float_magnitude_repr(SubSeq(all, first, last),
                                     point - (first - 1) + exponent))

\* float(integer + frac + exp) of the number at i whose digits start at d, whose
\* integer part ends before e, whose fraction ends before f and which ends
\* before z
float_at(s, i, d, e, f, z) ==
  float_repr_of(d > i,
                SubSeq(s, d, e - 1) \o SubSeq(s, e + 1, f - 1),
                e - d,
                IF z > f
                THEN exponent_of(s[f + 1] = "-", SubSeq(s, exp_digits(s, f), z - 1))
                ELSE 0)

\* the number at i whose digits start at d, whose integer part ends before e
\* and which ends before z: a float with a fraction or an exponent, else an
\* int, which int(...) makes of a numeral of up to default_max_str_digits
\* digits
number_value(s, i, d, e, z) ==
  IF z > e THEN Parsed(PyFloat(float_at(s, i, d, e, frac_end(s, e), z)), z)
  ELSE IF e - d > default_max_str_digits THEN IntTooLong
  ELSE IF e - d > MaxIntDigits THEN Parsed(PyBigInt(SubSeq(s, i, e - 1)), e)
  ELSE Parsed(PyInt(IF d > i THEN 0 - int_of(s, d, e, 0) ELSE int_of(s, d, e, 0)), e)

number_from(s, i, d) ==
  IF d > Len(s) \/ s[d] \notin AsciiDigit THEN NoParse
  ELSE number_value(s, i, d, int_end(s, d), exp_end(s, frac_end(s, int_end(s, d))))

\* match_number
match_number(s, i) == number_from(s, i, IF s[i] = "-" THEN i + 1 ELSE i)

NULL == <<"n", "u", "l", "l">>
JSON_TRUE == <<"t", "r", "u", "e">>
JSON_FALSE == <<"f", "a", "l", "s", "e">>
NAN == <<"N", "a", "N">>
INFINITY == <<"I", "n", "f", "i", "n", "i", "t", "y">>

\* what is at i besides a str, an array and an object
scan_atom(s, i) ==
  IF starts_at(s, i, NULL) THEN Parsed(PyNone, i + 4)
  ELSE IF starts_at(s, i, JSON_TRUE) THEN Parsed(PyBool(TRUE), i + 4)
  ELSE IF starts_at(s, i, JSON_FALSE) THEN Parsed(PyBool(FALSE), i + 5)
  ELSE IF match_number(s, i) # NoParse THEN match_number(s, i)
  ELSE IF starts_at(s, i, NAN) THEN Parsed(PyFloat(FLOAT_NAN), i + 3)
  ELSE IF starts_at(s, i, INFINITY) THEN Parsed(PyFloat(FLOAT_INF), i + 8)
  ELSE IF starts_at(s, i, <<"-">> \o INFINITY)
  THEN Parsed(PyFloat(<<"-">> \o FLOAT_INF), i + 9)
  ELSE NoParse

\* dict(pairs): a key that comes again keeps its place and takes the new value
dict_set(items, k, v) ==
  IF \E i \in 1..Len(items) : items[i].key = k
  THEN [i \in 1..Len(items) |->
          IF items[i].key = k THEN PyItem(k, v) ELSE items[i]]
  ELSE Append(items, PyItem(k, v))

\* scan_once, JSONArray and JSONObject of json.decoder: the value at i; the
\* items of an array from the item at i on; the members of an object from the
\* key at i on
RECURSIVE scan_once(_, _)
RECURSIVE array_item(_, _, _)
RECURSIVE array_next(_, _, _)
RECURSIVE object_key(_, _, _)
RECURSIVE object_colon(_, _, _)
RECURSIVE object_value(_, _, _, _)
RECURSIVE object_next(_, _, _)

scan_once(s, i) ==
  IF i > Len(s) THEN NoParse
  ELSE IF s[i] = "\"" THEN scanstring(s, i + 1, <<>>)
  ELSE IF s[i] = "[" THEN
    (IF starts_at(s, skip_ws(s, i + 1), <<"]">>)
     THEN Parsed(PyList(<<>>), skip_ws(s, i + 1) + 1)
     ELSE array_item(s, scan_once(s, skip_ws(s, i + 1)), <<>>))
  ELSE IF s[i] = "{" THEN
    (IF starts_at(s, skip_ws(s, i + 1), <<"}">>)
     THEN Parsed(PyDict(<<>>), skip_ws(s, i + 1) + 1)
     ELSE object_key(s, skip_ws(s, i + 1), <<>>))
  ELSE scan_atom(s, i)

array_item(s, item, acc) ==
  IF ~item.ok THEN item
  ELSE array_next(s, skip_ws(s, item.at), Append(acc, item.py))

array_next(s, i, acc) ==
  IF i > Len(s) THEN NoParse
  ELSE IF s[i] = "]" THEN Parsed(PyList(acc), i + 1)
  ELSE IF s[i] = "," THEN array_item(s, scan_once(s, skip_ws(s, i + 1)), acc)
  ELSE NoParse

object_key(s, i, acc) ==
  IF i > Len(s) \/ s[i] # "\"" THEN NoParse
  ELSE object_colon(s, scanstring(s, i + 1, <<>>), acc)

object_colon(s, name, acc) ==
  IF ~name.ok THEN NoParse
  ELSE IF ~starts_at(s, skip_ws(s, name.at), <<":">>) THEN NoParse
  ELSE object_value(s, name.py,
                    scan_once(s, skip_ws(s, skip_ws(s, name.at) + 1)), acc)

object_value(s, name, item, acc) ==
  IF ~item.ok THEN item
  ELSE object_next(s, skip_ws(s, item.at), dict_set(acc, name, item.py))

object_next(s, i, acc) ==
  IF i > Len(s) THEN NoParse
  ELSE IF s[i] = "}" THEN Parsed(PyDict(acc), i + 1)
  ELSE IF s[i] = "," THEN object_key(s, skip_ws(s, i + 1), acc)
  ELSE NoParse

\* JSONDecoder.decode: one value between white space, and nothing after it
decode(s, item) ==
  IF ~item.ok THEN Raised(item.error)
  ELSE IF skip_ws(s, item.at) = Len(s) + 1 THEN Returned(item.py)
  ELSE Raised("JSONDecodeError")

\* json.loads(s) of a str
json_loads(s) ==
  IF starts_at(s, 1, <<"uFEFF">>) THEN Raised("JSONDecodeError")
  ELSE decode(s, scan_once(s, skip_ws(s, 1)))

\* a == b of Python values: the items of lists and of tuples pairwise, a
\* dict whatever the order of its items, True and False as 1 and 0
py_number(o) == IF PyType(o) = "bool" THEN (IF o.bool THEN 1 ELSE 0) ELSE o.int

\* the float is the whole number with this decimal numeral.  A repr without
\* exponent ends in ".0" exactly when the float is a whole number, which is
\* then below 2^53 and the number the digits say; one with a negative exponent
\* is none; one with a positive exponent is 10^16 or more, and whether its
\* float is the whole number of its digits is outside the model
float_is_int(repr, numeral) ==
  IF repr \in {FLOAT_NAN, FLOAT_INF, <<"-">> \o FLOAT_INF} THEN FALSE
  ELSE IF float_is_zero(repr) THEN numeral = <<"0">>
  ELSE IF FirstIn(repr, 1, {"e"}) > Len(repr)
  THEN repr = numeral \o <<".", "0">>
  ELSE IF repr[FirstIn(repr, 1, {"e"}) + 1] = "-" THEN FALSE
  ELSE IF Len(numeral) < FLOAT_DIG THEN FALSE
  ELSE Undefined(<<repr, numeral>>)

\* str(n) of an int or a bool as a number
int_numeral(o) == IF PyType(o) = "bigint" THEN o.bigint ELSE int_repr(py_number(o))

\* a == b of two floats: nan equals nothing, 0.0 equals -0.0
float_equal(a, b) ==
  /\ a # FLOAT_NAN
  /\ a = b \/ (float_is_zero(a) /\ float_is_zero(b))

RECURSIVE py_equal(_, _)
py_equal(a, b) ==
  IF PyType(a) \in {"bool", "int"} /\ PyType(b) \in {"bool", "int"}
  THEN py_number(a) = py_number(b)
  ELSE IF PyType(a) = "float" /\ PyType(b) = "float" THEN float_equal(a.float, b.float)
  ELSE IF PyType(a) = "float" /\ PyType(b) \in {"bool", "int", "bigint"}
  THEN float_is_int(a.float, int_numeral(b))
  ELSE IF PyType(b) = "float" /\ PyType(a) \in {"bool", "int", "bigint"}
  THEN float_is_int(b.float, int_numeral(a))
  ELSE IF PyType(a) # PyType(b) THEN FALSE
  ELSE IF PyType(a) = "list"
  THEN /\ Len(a.list) = Len(b.list)
       /\ \A i \in 1..Len(a.list) : py_equal(a.list[i], b.list[i])
  ELSE IF PyType(a) = "tuple"
  THEN /\ Len(a.tuple) = Len(b.tuple)
       /\ \A i \in 1..Len(a.tuple) : py_equal(a.tuple[i], b.tuple[i])
  ELSE IF PyType(a) = "dict"
  THEN /\ Len(a.dict) = Len(b.dict)
       /\ \A i \in 1..Len(a.dict) :
            \E j \in 1..Len(b.dict) :
              /\ py_equal(a.dict[i].key, b.dict[j].key)
              /\ py_equal(a.dict[i].val, b.dict[j].val)
  ELSE a = b

(***************************************************************************)
(* storage/firestore_client.py, storage/gcs_client.py                      *)
(***************************************************************************)

\* the documents the query where("file_url", "==", file_url) selects
docs_for(docs, file_url) ==
  {i \in 1..Len(docs) : docs[i].file_url = file_url}

\* get_latest_metadata: order_by(version, DESCENDING).limit(1).  The set of
\* the values the call can return: None without a match; among documents of
\* equal version the store returns the one its order of document names puts
\* first, and the names are ids the store generated, so any of them
get_latest_metadata(docs, file_url) ==
  LET hits == docs_for(docs, file_url)
      latest == {i \in hits : \A j \in hits : docs[j].version <= docs[i].version}
  IN IF hits = {} THEN {Nothing} ELSE {Some(docs[i]) : i \in latest}

\* get_metadata_by_version: where file_url and version match, limit(1).  The
\* set of the values the call can return: with several matches the one whose
\* generated name comes first
get_metadata_by_version(docs, file_url, version) ==
  LET hits == {i \in docs_for(docs, file_url) : docs[i].version = version}
  IN IF hits = {} THEN {Nothing} ELSE {Some(docs[i]) : i \in hits}

\* a FileMetadata without id
NoId == 0

\* the id the store generates for a new document: one no document carries
new_document_id(docs) ==
  LET ids == {docs[i].id : i \in 1..Len(docs)} \cup {Len(docs)}
  IN (CHOOSE n \in ids : \A k \in ids : k <= n) + 1

\* metadata.model_dump(mode="json", exclude={"id"}): the URL fields as str
model_dump(metadata) ==
  [metadata EXCEPT !.id = NoId,
                   !.file_url = HttpUrlStr(metadata.file_url),
                   !.parent_url = HttpUrlStr(metadata.parent_url)]

firestore_add_next_version(docs, metadata) ==
  Append(docs, [model_dump(metadata) EXCEPT
                  !.id = new_document_id(docs),
                  !.version =
                     LET latest == CHOOSE l \in get_latest_metadata(docs, metadata.file_url) : TRUE
                     IN IF latest # Nothing
                        THEN TheOne(latest).version + 1 ELSE 1])

\* collection_ref.add(data): a new document under a generated id
firestore_add(docs, metadata) ==
  Append(docs, [model_dump(metadata) EXCEPT !.id = new_document_id(docs)])

\* collection_ref.document(id).set(data): the document of that id is
\* replaced, or made when there is none
firestore_set(docs, id, metadata) ==
  IF \E i \in 1..Len(docs) : docs[i].id = id
  THEN [i \in 1..Len(docs) |->
          IF docs[i].id = id THEN [model_dump(metadata) EXCEPT !.id = id]
          ELSE docs[i]]
  ELSE Append(docs, [model_dump(metadata) EXCEPT !.id = id])

\* save_metadata: the collection afterwards and the document id returned
save_metadata(docs, metadata) ==
  IF metadata.id # NoId
  THEN [docs |-> firestore_set(docs, metadata.id, metadata), doc_id |-> metadata.id]
  ELSE [docs |-> firestore_add(docs, metadata), doc_id |-> new_document_id(docs)]

\* the content upload_data hands to upload_from_string: json.dumps of a dict,
\* anything else as it is.  upload_from_string takes a str and encodes it in
\* UTF-8, which a surrogate code point has no bytes in
content_of(data) ==
  IF is_dict(data) THEN json_dumps(data)
  ELSE IF ~is_str(data) THEN Raised("TypeError")
  ELSE Returned(data.str)

is_encodable(text) == \A i \in 1..Len(text) : ord(text[i]) \notin Surrogates

\* the content type upload_data sets, whatever its content_type argument
content_type_of(data) ==
  IF is_dict(data) THEN "application/json" ELSE "text/markdown"

\* the blob upload_data writes for data that it can write
blob_of(data) ==
  [content_type |-> content_type_of(data), text |-> content_of(data).value]

\* upload_data: the exception it raises, None when it writes the blob
upload_error(data) ==
  IF content_of(data).raised THEN content_of(data).value
  ELSE IF ~is_encodable(content_of(data).value) THEN "UnicodeEncodeError"
  ELSE None

\* upload_data(path, data) that writes: the blob at path is replaced
upload_data(bucket, path, data) == (path :> blob_of(data)) @@ bucket

\* download_data: the blob's bytes decoded as UTF-8, and parsed with
\* json.loads when as_json; a missing blob is an error
download_data(bucket, path, as_json) ==
  IF path \notin DOMAIN bucket THEN Raised("NotFound")
  ELSE IF as_json THEN json_loads(bucket[path].text)
  ELSE Returned(PyStr(bucket[path].text))

\* delete_file(path): blob.delete() removes the blob and raises NotFound
\* when there is none
delete_file(bucket, path) == [q \in (DOMAIN bucket) \ {path} |-> bucket[q]]

(***************************************************************************)
(* storage/__init__.py: StorageManager.save_data                           *)
(***************************************************************************)

SaveIdle ==
  [pc |-> "idle", caller |-> None, parent_url |-> NoText, file_url |-> NoText,
   file_name |-> None, data |-> Nothing, format |-> None, metadata |-> Nothing,
   error |-> None]

\* the version number save_data gives the new record
new_version(latest_metadata) ==
  IF latest_metadata # Nothing THEN TheOne(latest_metadata).version + 1 ELSE 1

\* FileMetadata(...): pydantic validates the URL fields and the format
metadata_valid(parent_url, file_url, format) ==
  IsHttpUrl(parent_url) /\ IsHttpUrl(file_url) /\ format \in Formats

\* the FileMetadata a valid call builds: its URL fields are HttpUrl values,
\* which read as the normalised text; the id is None
FileMetadata(source_file_name, parent_url, file_url, file_name, version, format, gcs_path) ==
  [id |-> NoId, source_file_name |-> source_file_name,
   parent_url |-> HttpUrlStr(parent_url), file_url |-> HttpUrlStr(file_url),
   file_name |-> file_name, version |-> version, format |-> format,
   gcs_path |-> gcs_path]

\* where save_data goes after the upload returned or raised
after_upload_always_save(ok) == "save_metadata"

after_upload(ok) == IF ok THEN "save_metadata" ELSE "raised"

\* save_data is entered: nothing awaited yet
SaveBegin(p, caller, parent_url, file_url, file_name, data, format) ==
  sv' = [sv EXCEPT ![p] =
           [pc |-> "get_latest_metadata", caller |-> caller,
            parent_url |-> parent_url, file_url |-> file_url,
            file_name |-> file_name, data |-> Some(data), format |-> format,
            metadata |-> Nothing, error |-> None]]

\* await get_latest_metadata(file_url), then the version, the path and the record
SaveGetLatest(p) ==
  /\ sv[p].pc = "get_latest_metadata"
  /\ \E latest_metadata \in get_latest_metadata(firestore, sv[p].file_url) :
       LET c == sv[p]
           v == new_version(latest_metadata)
           gcs_path == get_gcs_path(c.file_url, v)
       IN IF gcs_path.raised
          THEN sv' = [sv EXCEPT ![p].pc = "raised", ![p].error = gcs_path.value]
          ELSE IF metadata_valid(c.parent_url, c.file_url, c.format)
          THEN sv' = [sv EXCEPT ![p].pc = "upload_data",
                                ![p].metadata = Some(
                                   FileMetadata(c.file_name, c.parent_url, c.file_url,
                                                c.file_name, v, c.format,
                                                gcs_path.value))]
          ELSE sv' = [sv EXCEPT ![p].pc = "raised",
                                ![p].error = "ValidationError"]
  /\ UNCHANGED <<firestore, gcs>>

SaveGetLatestRaises(p) ==
  /\ sv[p].pc = "get_latest_metadata"
  /\ sv' = [sv EXCEPT ![p].pc = "raised", ![p].error = "get_latest_metadata failed"]
  /\ UNCHANGED <<firestore, gcs>>

\* await gcs_client.upload_data(gcs_path, data): the blob is written, or the
\* data cannot be written and the call raises
SaveUpload(p) ==
  /\ sv[p].pc = "upload_data"
  /\ IF upload_error(TheOne(sv[p].data)) = None
     THEN /\ gcs' = upload_data(gcs, TheOne(sv[p].metadata).gcs_path,
                                TheOne(sv[p].data))
          /\ sv' = [sv EXCEPT ![p].pc = after_upload(TRUE)]
     ELSE /\ gcs' = gcs
          /\ sv' = [sv EXCEPT ![p].pc = after_upload(FALSE),
                              ![p].error = upload_error(TheOne(sv[p].data))]
  /\ UNCHANGED firestore

SaveUploadRaises(p) ==
  /\ sv[p].pc = "upload_data"
  /\ sv' = [sv EXCEPT ![p].pc = after_upload(FALSE), ![p].error = "upload_data failed"]
  /\ UNCHANGED <<firestore, gcs>>

\* await firestore_client.save_metadata(metadata); metadata.id = doc_id
SaveMetadata(p) ==
  /\ sv[p].pc = "save_metadata"
  /\ LET saved == save_metadata(firestore, TheOne(sv[p].metadata))
     IN /\ firestore' = saved.docs
        /\ sv' = [sv EXCEPT ![p].pc = "returned",
                            ![p].metadata[1].id = saved.doc_id]
  /\ UNCHANGED gcs

SaveMetadataRaises(p) ==
  /\ sv[p].pc = "save_metadata"
  /\ sv' = [sv EXCEPT ![p].pc = "raised", ![p].error = "save_metadata failed"]
  /\ UNCHANGED <<firestore, gcs>>

(***************************************************************************)
(* storage/__init__.py: StorageManager.get_data, get_data_by_version       *)
(***************************************************************************)

\* get_data: the decoding follows the record's format
get_data(bucket, metadata) ==
  download_data(bucket, metadata.gcs_path, metadata.format = "json")

\* what rd holds of a get_data_by_version call: where the call is, the record
\* the query returned, the outcome and the number of downloads made; saves and
\* docs are history: the number of finished save_data calls and of stored
\* records when the call was entered
ReadCallIdle ==
  [pc |-> "idle", file_url |-> NoText, version |-> 0, metadata |-> Nothing,
   out |-> Nothing, downloads |-> 0, saves |-> 0, docs |-> 0]

\* get_data_by_version(file_url, version) is entered: nothing awaited yet
ReadBegin(file_url, version) ==
  /\ rd.pc \in {"idle", "returned", "raised"}
  /\ rd' = [ReadCallIdle EXCEPT !.pc = "get_metadata_by_version",
                                !.file_url = file_url, !.version = version,
                                !.saves = Len(saveLog), !.docs = Len(firestore)]
  /\ UNCHANGED <<firestore, gcs, sv, saveLog>>

\* await get_metadata_by_version(file_url, version) returned: without a
\* record the call returns None
ReadGetMetadata ==
  /\ rd.pc = "get_metadata_by_version"
  /\ \E metadata \in get_metadata_by_version(firestore, rd.file_url, rd.version) :
       rd' = IF metadata = Nothing
             THEN [rd EXCEPT !.pc = "returned", !.out = Some(Returned(Nothing))]
             ELSE [rd EXCEPT !.pc = "get_data", !.metadata = metadata]
  /\ UNCHANGED <<firestore, gcs, sv, saveLog>>

\* the call once get_data returned or raised
read_done(call, data) ==
  [call EXCEPT !.pc = IF data.raised THEN "raised" ELSE "returned",
               !.out = Some(IF data.raised THEN data
                            ELSE Returned(Some(data.value))),
               !.downloads = 1]

\* await get_data(metadata) returned or raised: the blob as it is now
ReadGetData ==
  /\ rd.pc = "get_data"
  /\ rd' = read_done(rd, get_data(gcs, TheOne(rd.metadata)))
  /\ UNCHANGED <<firestore, gcs, sv, saveLog>>

\* a caller's await gcs_client.delete_file(path) of a blob of the bucket
\* (for a path without blob it raises and changes nothing)
DeleteFile(path) ==
  /\ path \in DOMAIN gcs
  /\ gcs' = delete_file(gcs, path)
  /\ UNCHANGED <<firestore, sv, saveLog>>

(***************************************************************************)
(* save_data called directly, one call after the other                     *)
(***************************************************************************)

MaxSaves == 3
MaxSaveFaults == 1

\* "https://a/\ud800": a URL with a lone surrogate
URL_SURROGATE == <<"h", "t", "t", "p", "s", ":", "/", "/", "a", "/", "uD800">>

SaveUrls == {URL_BACKLOG, URL_BACKLOG_UPPER, URL_FTP, URL_SURROGATE}

\* {"a": 1}
DATA_D1 == PyDict(<<PyItem(PyStr(<<"a">>), PyInt(1))>>)

\* "# T"
DATA_S1 == PyStr(<<"#", " ", "T">>)

SavePayloads ==
  { [data |-> DATA_D1, format |-> "json"],
    [data |-> DATA_S1, format |-> "markdown"] }

\* the number of calls that ended in an exception raised by a collaborator
SaveFaults ==
  Cardinality({i \in 1..Len(saveLog) :
                 saveLog[i].error \notin {None, "ValidationError", "UnicodeEncodeError"}})

StoreIdle ==
  /\ firestore = <<>>
  /\ gcs = EmptyFn
  /\ sv = [p \in Procs |-> SaveIdle]
  /\ saveLog = <<>>

StoreCall(p) ==
  /\ \A q \in Procs : sv[q].pc = "idle"
  /\ Len(saveLog) < MaxSaves
  /\ \E u \in SaveUrls, x \in SavePayloads :
       SaveBegin(p, "client", URL_BACKLOG, u, "template", x.data, x.format)
  /\ UNCHANGED <<firestore, gcs, saveLog>>

StoreStepOk(p) ==
  /\ sv[p].caller = "client"
  /\ SaveGetLatest(p) \/ SaveUpload(p) \/ SaveMetadata(p)
  /\ UNCHANGED saveLog

StoreStepRaises(p) ==
  /\ sv[p].caller = "client"
  /\ SaveFaults < MaxSaveFaults
  /\ SaveGetLatestRaises(p) \/ SaveUploadRaises(p) \/ SaveMetadataRaises(p)
  /\ UNCHANGED saveLog

\* the call returns its metadata, or raises, to the caller
StoreReturn(p) ==
  /\ sv[p].pc \in {"returned", "raised"}
  /\ sv[p].caller = "client"
  /\ saveLog' = Append(saveLog,
        [file_url |-> sv[p].file_url, error |-> sv[p].error,
         data |-> sv[p].data, format |-> sv[p].format,
         built |-> sv[p].metadata, docs |-> Len(firestore),
         metadata |-> IF sv[p].pc = "returned" THEN sv[p].metadata ELSE Nothing])
  /\ sv' = [sv EXCEPT ![p] = SaveIdle]
  /\ UNCHANGED <<firestore, gcs>>

(***************************************************************************)
(* get_data_by_version called while save_data calls go on                  *)
(***************************************************************************)

MaxReadSaves == 2

ReadUrls == {URL_BACKLOG, URL_BACKLOG_UPPER}

\* the str '{"a": 1}'
DATA_JSON_TEXT == PyStr(<<"{", "\"", "a", "\"", ":", " ", "1", "}">>)

\* {1: (1, 2)}
DATA_TUPLE == PyDict(<<PyItem(PyInt(1), PyTuple(<<PyInt(1), PyInt(2)>>))>>)

\* besides those of SavePayloads: a str saved as json, a dict with an int key
\* and a tuple, a dict saved as markdown, and a list, which upload_data cannot
\* write
ReadPayloads ==
  SavePayloads
    \cup { [data |-> DATA_JSON_TEXT, format |-> "json"],
           [data |-> DATA_TUPLE, format |-> "json"],
           [data |-> DATA_D1, format |-> "markdown"],
           [data |-> PyList(<<>>), format |-> "json"] }

ReadIdle == rd = ReadCallIdle

StoreCallRead(p) ==
  /\ \A q \in Procs : sv[q].pc = "idle"
  /\ Len(saveLog) < MaxReadSaves
  /\ \E u \in ReadUrls, x \in ReadPayloads :
       SaveBegin(p, "client", URL_BACKLOG, u, "template", x.data, x.format)
  /\ UNCHANGED <<firestore, gcs, saveLog>>

\* a caller reads a version of a URL, whatever the save_data calls are at
StoreGetDataByVersion ==
  \E u \in ReadUrls, v \in 1..MaxReadSaves : ReadBegin(u, v)

\* a caller deletes a blob
StoreDeleteFile == \E path \in DOMAIN gcs : DeleteFile(path)

(***************************************************************************)
(* save_data called by two callers whose calls may overlap                 *)
(***************************************************************************)

MaxOverlappingSaves == 2

\* a caller starts a call while another caller's call may be in progress
StoreCallOverlapping(p) ==
  /\ sv[p].pc = "idle"
  /\ Len(saveLog) + Cardinality({q \in Procs : sv[q].pc # "idle"})
       < MaxOverlappingSaves
  /\ \E u \in SaveUrls, x \in SavePayloads :
       SaveBegin(p, "client", URL_BACKLOG, u, "template", x.data, x.format)
  /\ UNCHANGED <<firestore, gcs, saveLog>>

(***************************************************************************)
(* The tracker project and the names of the items MasterService requires   *)
(***************************************************************************)

ISSUE_TYPE_TASK == <<"u8AB2", "u984C">>  \* 課題
ISSUE_TYPE_RISK == <<"u30EA", "u30B9", "u30AF">>  \* リスク

FIELD_INPUT == <<"u30A4", "u30F3", "u30D7", "u30C3", "u30C8">>  \* インプット
FIELD_GOAL_OUTPUT ==  \* ゴール/アウトプット
  <<"u30B4", "u30FC", "u30EB", "/", "u30A2", "u30A6", "u30C8", "u30D7", "u30C3", "u30C8">>

(***************************************************************************)
(* services/master_service.py                                              *)
(***************************************************************************)

REQUIRED_ISSUE_TYPES == <<ISSUE_TYPE_TASK, ISSUE_TYPE_RISK>>

REQUIRED_CATEGORIES == [i \in 1..Len(CategoryEnum) |-> CategoryValue[CategoryEnum[i]]]

REQUIRED_CUSTOM_FIELDS ==
  << [name |-> FIELD_INPUT, type_id |-> 1],
     [name |-> FIELD_GOAL_OUTPUT, type_id |-> 2] >>

\* the three phases of setup_master_data, in the order of its try blocks;
\* the name is the one its error message carries
Phases == <<"issue types", "categories", "custom fields">>

\* the names a phase requires, in list order
RequiredNames(phase) ==
  CASE phase = "issue types" -> REQUIRED_ISSUE_TYPES
    [] phase = "categories" -> REQUIRED_CATEGORIES
    [] phase = "custom fields" ->
         [i \in 1..Len(REQUIRED_CUSTOM_FIELDS) |-> REQUIRED_CUSTOM_FIELDS[i].name]

\* the items the tracker project holds for a phase, by name
ItemsOf(project, phase) ==
  CASE phase = "issue types" -> project.issue_types
    [] phase = "categories" -> project.categories
    [] phase = "custom fields" -> project.custom_fields

\* BacklogMCPClient.get_issue_types, get_categories and get_custom_fields
\* once _call_mcp returned: the response is not read, the list returned is a
\* new empty one
get_issue_types(response) == <<>>

get_categories(response) == <<>>

get_custom_fields(response) == <<>>

\* what the get_* call of a phase returns for a project, the client being the
\* repository's BacklogMCPClient
get_existing(project, phase) ==
  CASE phase = "issue types" -> get_issue_types(project.issue_types)
    [] phase = "categories" -> get_categories(project.categories)
    [] phase = "custom fields" -> get_custom_fields(project.custom_fields)

\* {t.name for t in existing}, an item being modelled by its name
names_of(existing) == {existing[i] : i \in 1..Len(existing)}

\* the required names that are not among the existing ones, in list order
missing_all(required, existing_names) == required

missing_last_first(required, existing_names) ==
  LET todo == SelectSeq(required, LAMBDA n : n \notin existing_names)
  IN [i \in 1..Len(todo) |-> todo[Len(todo) + 1 - i]]

missing(required, existing_names) ==
  SelectSeq(required, LAMBDA n : n \notin existing_names)

\* MasterDataResult()
MasterDataResult ==
  [created_issue_types |-> <<>>, created_categories |-> <<>>,
   created_custom_fields |-> <<>>, errors |-> <<>>]

success(result) == Len(result.errors) = 0

total_created_without_fields(result) ==
  Len(result.created_issue_types) + Len(result.created_categories)

total_created(result) ==
  Len(result.created_issue_types) + Len(result.created_categories)
    + Len(result.created_custom_fields)

\* result.created_issue_types = created_types, and so on
with_created(result, phase, created) ==
  CASE phase = "issue types" -> [result EXCEPT !.created_issue_types = created]
    [] phase = "categories" -> [result EXCEPT !.created_categories = created]
    [] phase = "custom fields" -> [result EXCEPT !.created_custom_fields = created]

\* error_msg = f"Failed to setup {phase}: {str(e)}"; result.errors.append(error_msg)
with_error_dropped(result, phase, e) == result

with_error(result, phase, e) ==
  [result EXCEPT !.errors = Append(@, [failed_to_setup |-> phase, message |-> e])]

\* the project holds every required item of every phase
FullyProvisioned(project) ==
  \A k \in 1..Len(Phases) :
    \A i \in 1..Len(RequiredNames(Phases[k])) :
      RequiredNames(Phases[k])[i] \in names_of(ItemsOf(project, Phases[k]))

\* calls and provisioned are history: the collaborator calls made so far
\* (with the names a get returned, or the name given to a create), and
\* whether the project held every required item when the run began
MasterIdle ==
  [pc |-> "idle", caller |-> None, phase |-> 0, todo |-> <<>>, created |-> <<>>,
   result |-> MasterDataResult, calls |-> <<>>, provisioned |-> FALSE]

\* where setup_master_data goes when phase k ended, by return or by exception
after_phase_stop(k) == "done"

after_phase(k) == IF k < Len(Phases) THEN "get" ELSE "done"

\* the phase k of run p ended with the given result
end_phase(run, result) ==
  [run EXCEPT !.result = result, !.todo = <<>>, !.created = <<>>,
              !.pc = after_phase(run.phase),
              !.phase = IF run.phase < Len(Phases) THEN run.phase + 1 ELSE run.phase]

\* setup_master_data is entered: result = MasterDataResult()
MasterBegin(p, caller) ==
  ms' = [ms EXCEPT ![p] = [MasterIdle EXCEPT !.pc = "get", !.caller = caller,
                                             !.phase = 1,
                                             !.provisioned = FullyProvisioned(tracker)]]

\* await get_issue_types / get_categories / get_custom_fields returns the
\* list existing: the required names that are not among its names are to be
\* created
MasterGetGiven(p, existing) ==
  /\ ms[p].pc = "get"
  /\ LET existing_type_names == names_of(existing)
         run == [ms[p] EXCEPT !.calls = Append(@, [op |-> "get", phase |-> Phases[ms[p].phase], ok |-> TRUE,
                                         arg |-> existing_type_names])]
         phase == Phases[run.phase]
         todo == missing(RequiredNames(phase), existing_type_names)
     IN ms' = [ms EXCEPT ![p] =
                 IF todo = <<>>
                 THEN end_phase(run, with_created(run.result, phase, <<>>))
                 ELSE [run EXCEPT !.pc = "create", !.todo = todo, !.created = <<>>]]
  /\ UNCHANGED tracker

\* the same, the client being the repository's BacklogMCPClient
MasterGet(p) ==
  /\ ms[p].pc = "get"
  /\ MasterGetGiven(p, get_existing(tracker, Phases[ms[p].phase]))

\* await get_* raises: the phase's except block
MasterGetRaises(p) ==
  /\ ms[p].pc = "get"
  /\ LET run == [ms[p] EXCEPT !.calls = Append(@, [op |-> "get", phase |-> Phases[ms[p].phase], ok |-> FALSE,
                                         arg |-> {}])]
     IN ms' = [ms EXCEPT ![p] =
                 end_phase(run, with_error(run.result, Phases[run.phase], "get failed"))]
  /\ UNCHANGED tracker

\* await create_* returns for the next missing item: the item returned is not
\* looked at, and BacklogMCPClient keeps nothing of the call
MasterCreate(p) ==
  /\ ms[p].pc = "create"
  /\ LET run == [ms[p] EXCEPT !.calls = Append(@, [op |-> "create", phase |-> Phases[ms[p].phase], ok |-> TRUE,
                                         arg |-> Head(ms[p].todo)])]
         phase == Phases[run.phase]
         name == Head(run.todo)
         created == Append(run.created, name)
     IN ms' = [ms EXCEPT ![p] =
                 IF Tail(run.todo) = <<>>
                 THEN end_phase(run, with_created(run.result, phase, created))
                 ELSE [run EXCEPT !.todo = Tail(@), !.created = created]]
  /\ UNCHANGED tracker

\* await create_* raises: re-raised by _ensure_*, caught by the phase's except
MasterCreateRaises(p) ==
  /\ ms[p].pc = "create"
  /\ LET run == [ms[p] EXCEPT !.calls = Append(@, [op |-> "create", phase |-> Phases[ms[p].phase], ok |-> FALSE,
                                         arg |-> Head(ms[p].todo)])]
     IN ms' = [ms EXCEPT ![p] =
                 end_phase(run, with_error(run.result, Phases[run.phase], "create failed"))]
  /\ UNCHANGED tracker

(***************************************************************************)
(* setup_master_data called directly, one call after the other             *)
(***************************************************************************)

MaxSetupRuns == 2

EmptyProject ==
  [issue_types |-> <<>>, categories |-> <<>>, custom_fields |-> <<>>, tasks |-> <<>>]

InitialProjects ==
  [issue_types : {<<>>, <<ISSUE_TYPE_RISK>>, REQUIRED_ISSUE_TYPES},
   categories : {<<>>, <<CategoryValue["IMPLEMENTATION"], CategoryValue["TESTING"]>>,
                 REQUIRED_CATEGORIES},
   custom_fields : {<<>>, <<FIELD_GOAL_OUTPUT, FIELD_INPUT>>},
   tasks : {<<>>}]

MasterIdleAll ==
  /\ tracker = EmptyProject
  /\ ms = [p \in Procs |-> MasterIdle]
  /\ lastRun = Nothing
  /\ runsDone = 0

MasterInit ==
  /\ tracker \in InitialProjects
  /\ ms = [p \in Procs |-> MasterIdle]
  /\ lastRun = Nothing
  /\ runsDone = 0

MasterCall(p) ==
  /\ \A q \in Procs : ms[q].pc = "idle"
  /\ runsDone < MaxSetupRuns
  /\ MasterBegin(p, "client")
  /\ UNCHANGED <<tracker, lastRun, runsDone>>

MasterStepOk(p) ==
  /\ ms[p].caller = "client"
  /\ MasterGet(p) \/ MasterCreate(p)
  /\ UNCHANGED <<lastRun, runsDone>>

\* what the get_* of a client handed to MasterService may return in a phase
GivenExisting(phase) ==
  CASE phase = "issue types" -> {<<>>, <<ISSUE_TYPE_RISK>>, REQUIRED_ISSUE_TYPES}
    [] phase = "categories" ->
         {<<>>, <<CategoryValue["IMPLEMENTATION"], CategoryValue["TESTING"]>>,
          REQUIRED_CATEGORIES}
    [] phase = "custom fields" -> {<<>>, <<FIELD_GOAL_OUTPUT, FIELD_INPUT>>}

\* await get_* of such a client returns
MasterGetReturns(p) ==
  /\ ms[p].pc = "get"
  /\ \E existing \in GivenExisting(Phases[ms[p].phase]) : MasterGetGiven(p, existing)

MasterStepGiven(p) ==
  /\ ms[p].caller = "client"
  /\ MasterGetReturns(p) \/ MasterCreate(p)
  /\ UNCHANGED <<lastRun, runsDone>>

MasterStepRaises(p) ==
  /\ ms[p].caller = "client"
  /\ MasterGetRaises(p) \/ MasterCreateRaises(p)
  /\ UNCHANGED <<lastRun, runsDone>>

\* return result
MasterReturn(p) ==
  /\ ms[p].pc = "done"
  /\ ms[p].caller = "client"
  /\ lastRun' = Some([result |-> ms[p].result, calls |-> ms[p].calls])
  /\ runsDone' = runsDone + 1
  /\ ms' = [ms EXCEPT ![p] = MasterIdle]
  /\ UNCHANGED tracker

(***************************************************************************)
(* setup_master_data called by two callers whose runs may overlap          *)
(***************************************************************************)

\* the projects the runs work on: without items, or with every required one
MasterOverlappingProjects ==
  {EmptyProject,
   [issue_types |-> REQUIRED_ISSUE_TYPES, categories |-> REQUIRED_CATEGORIES,
    custom_fields |-> <<FIELD_GOAL_OUTPUT, FIELD_INPUT>>, tasks |-> <<>>]}

MasterOverlappingInit ==
  /\ tracker \in MasterOverlappingProjects
  /\ ms = [p \in Procs |-> MasterIdle]
  /\ lastRun = Nothing
  /\ runsDone = 0

\* a caller starts a run while another caller's run may be in progress
MasterCallOverlapping(p) ==
  /\ ms[p].pc = "idle"
  /\ runsDone + Cardinality({q \in Procs : ms[q].pc # "idle"}) < MaxSetupRuns
  /\ MasterBegin(p, "client")
  /\ UNCHANGED <<tracker, lastRun, runsDone>>

(***************************************************************************)
(* services/wbs_service.py: WBSService.create_wbs                          *)
(***************************************************************************)

\* the steps of create_wbs, in the order of its code
Steps ==
  <<"MasterDataSetup", "ResolveService", "CreateClient", "FetchTemplate",
    "ProcessTemplate", "PersistTemplate", "ParseNewTasks", "MergeTasks",
    "DetectDuplicates", "RegisterTasks", "Compile">>

\* the step that follows a step that completed; taken tells whether the
\* condition of the optional next step holds (new_tasks_text after
\* PersistTemplate, tasks_to_register after DetectDuplicates)
step_after_looping(step, taken) ==
  CASE step = "MasterDataSetup" -> "ResolveService"
    [] step = "ResolveService" -> "CreateClient"
    [] step = "CreateClient" -> "FetchTemplate"
    [] step = "FetchTemplate" -> "ProcessTemplate"
    [] step = "ProcessTemplate" -> "PersistTemplate"
    [] step = "PersistTemplate" -> IF taken THEN "ParseNewTasks" ELSE "MergeTasks"
    [] step = "ParseNewTasks" -> "PersistTemplate"
    [] step = "MergeTasks" -> "DetectDuplicates"
    [] step = "DetectDuplicates" -> IF taken THEN "RegisterTasks" ELSE "Compile"
    [] step = "RegisterTasks" -> "Compile"
    [] step = "Compile" -> "returned"

step_after(step, taken) ==
  CASE step = "MasterDataSetup" -> "ResolveService"
    [] step = "ResolveService" -> "CreateClient"
    [] step = "CreateClient" -> "FetchTemplate"
    [] step = "FetchTemplate" -> "ProcessTemplate"
    [] step = "ProcessTemplate" -> "PersistTemplate"
    [] step = "PersistTemplate" -> IF taken THEN "ParseNewTasks" ELSE "MergeTasks"
    [] step = "ParseNewTasks" -> "MergeTasks"
    [] step = "MergeTasks" -> "DetectDuplicates"
    [] step = "DetectDuplicates" -> IF taken THEN "RegisterTasks" ELSE "Compile"
    [] step = "RegisterTasks" -> "Compile"
    [] step = "Compile" -> "returned"

\* WBSResult()
WBSResult ==
  [success |-> FALSE, registered_tasks |-> <<>>, skipped_tasks |-> <<>>,
   metadata_id |-> Nothing, error_message |-> None, master_data_created |-> 0]

\* entered, calls, failed_in, raised, master_result, existing, passed and
\* created are history: the steps entered and the collaborator operations
\* invoked so far, the step that raised and what it raised, the result of
\* setup_master_data, the reply of get_tasks, the list passed to create_tasks
\* and the tasks created in the tracker
WbsIdle ==
  [pc |-> "idle", template_url |-> NoText, new_tasks_text |-> NoText,
   project_key |-> NoText, service_type |-> None, template_data |-> Nothing, template_tasks |-> <<>>,
   new_tasks |-> <<>>, merged_tasks |-> <<>>, tasks_to_register |-> <<>>,
   remaining |-> <<>>, result |-> WBSResult,
   entered |-> <<>>, calls |-> <<>>, failed_in |-> None, raised |-> None,
   master_result |-> Nothing, existing |-> Nothing, passed |-> Nothing,
   created |-> <<>>]

\* the current step completed: the next one is entered
complete(run, taken) ==
  LET next == step_after(run.pc, taken)
  IN [run EXCEPT !.pc = next,
                 !.entered = IF next = "returned" THEN @ ELSE Append(@, next)]

\* except Exception as e: result.success = False; result.error_message = str(e)
catch_and_go_on(run, e) ==
  complete([run EXCEPT !.failed_in = run.pc, !.raised = e,
                       !.result.success = FALSE, !.result.error_message = e],
           FALSE)

catch_and_retry(run, e) ==
  [run EXCEPT !.failed_in = run.pc, !.raised = e]

catch_and_raise(run, e) ==
  [run EXCEPT !.pc = "raised", !.failed_in = run.pc, !.raised = e]

catch(run, e) ==
  [run EXCEPT !.pc = "returned", !.failed_in = run.pc, !.raised = e,
              !.result.success = FALSE, !.result.error_message = e]

\* a collaborator operation is invoked
invoke(run, op) == [run EXCEPT !.calls = Append(@, op)]

\* the if/else on master_result.success: neither branch leaves create_wbs
continue_after_setup_if_clean(master_result) == success(master_result)

continue_after_setup(master_result) == TRUE

\* result.master_data_created after step 1
master_data_created(master_result) ==
  IF success(master_result) THEN total_created(master_result) ELSE 0

\* _extract_text_from_blocks
extract_text_from_blocks(blocks) == <<>>

\* _parse_backlog_data
parse_backlog_data(data) == Returned(<<>>)

\* key in data, and data.get(key), of a dict
dict_has(data, k) == \E i \in 1..Len(data.dict) : data.dict[i].key = k

dict_get(data, k) ==
  IF dict_has(data, k)
  THEN data.dict[CHOOSE i \in 1..Len(data.dict) : data.dict[i].key = k].val
  ELSE PyNone

KEY_TYPE == PyStr(<<"t", "y", "p", "e">>)
KEY_BLOCKS == PyStr(<<"b", "l", "o", "c", "k", "s">>)
KEY_ROWS == PyStr(<<"r", "o", "w", "s">>)
TYPE_PAGE == PyStr(<<"p", "a", "g", "e">>)
TYPE_DATABASE == PyStr(<<"d", "a", "t", "a", "b", "a", "s", "e">>)

\* type(o).__name__ of a value with no items
PyTypeName(o) ==
  IF PyType(o) = "none" THEN "NoneType"
  ELSE IF PyType(o) = "bigint" THEN "int"
  ELSE PyType(o)

\* for row in rows: pass: a str, a list, a tuple and a dict are iterated; a
\* value with no items is a TypeError; an object of another class is outside
\* the model
iterate(rows) ==
  IF PyType(rows) \in {"str", "list", "tuple", "dict"} THEN None
  ELSE IF PyType(rows) \in PyAtoms
  THEN "'" \o PyTypeName(rows) \o "' object is not iterable"
  ELSE Undefined(rows)

\* _parse_notion_data: a page with blocks is parsed from its extracted text;
\* the rows of a database are iterated and give no task, nor does anything
\* else
parse_notion_data(data) ==
  IF dict_get(data, KEY_TYPE) = TYPE_PAGE /\ dict_has(data, KEY_BLOCKS)
  THEN parse_tasks_from_text(extract_text_from_blocks(dict_get(data, KEY_BLOCKS)))
  ELSE IF dict_get(data, KEY_TYPE) = TYPE_DATABASE /\ dict_has(data, KEY_ROWS)
  THEN (IF iterate(dict_get(data, KEY_ROWS)) = None THEN Returned(<<>>)
        ELSE Raised(iterate(dict_get(data, KEY_ROWS))))
  ELSE Returned(<<>>)

\* _process_template_data
process_template_data(template_data, service_type) ==
  IF service_type = "BACKLOG" THEN parse_backlog_data(template_data)
  ELSE parse_notion_data(template_data)

\* _check_duplicates, given the outcome of get_tasks (the summaries of the
\* existing tasks, or an exception)
check_duplicates_case_sensitive(tasks, reply) ==
  IF reply.raised THEN [to_register |-> tasks, duplicates |-> <<>>]
  ELSE LET existing_titles ==
             {Lower(reply.value[i]) : i \in 1..Len(reply.value)}
       IN [to_register |->
             SelectSeq(tasks, LAMBDA t : t.title \notin existing_titles),
           duplicates |->
             SelectSeq(tasks, LAMBDA t : t.title \in existing_titles)]

check_duplicates_dropping(tasks, reply) ==
  IF reply.raised THEN [to_register |-> <<>>, duplicates |-> <<>>]
  ELSE LET existing_titles ==
             {Lower(reply.value[i]) : i \in 1..Len(reply.value)}
       IN [to_register |->
             SelectSeq(tasks, LAMBDA t : Lower(t.title) \notin existing_titles),
           duplicates |->
             SelectSeq(tasks, LAMBDA t : Lower(t.title) \in existing_titles)]

check_duplicates(tasks, reply) ==
  IF reply.raised THEN [to_register |-> tasks, duplicates |-> <<>>]
  ELSE LET existing_titles ==
             {Lower(reply.value[i]) : i \in 1..Len(reply.value)}
       IN [to_register |->
             SelectSeq(tasks, LAMBDA t : Lower(t.title) \notin existing_titles),
           duplicates |->
             SelectSeq(tasks, LAMBDA t : Lower(t.title) \in existing_titles)]

\* step 11, if tasks_to_register: create_tasks is called only with a task
register_always(tasks_to_register) == TRUE

register_needed(tasks_to_register) == tasks_to_register # <<>>

\* a result object kept by the service and written by every run
instance_result(p) ==
  LET others == {q \in Procs \ {p} : ws[q].pc # "idle"}
  IN IF others = {} THEN WBSResult ELSE ws[CHOOSE q \in others : TRUE].result

\* result = WBSResult(): a new object, local to the run
local_result(p) == WBSResult

\* create_wbs is entered; step 1 awaits setup_master_data(project_key)
WbsBegin(p, template_url, new_tasks_text, project_key) ==
  /\ ws[p].pc = "idle"
  /\ ws' = [ws EXCEPT ![p] =
              invoke([WbsIdle EXCEPT !.pc = "MasterDataSetup",
                                     !.result = local_result(p),
                                     !.entered = <<"MasterDataSetup">>,
                                     !.template_url = template_url,
                                     !.new_tasks_text = new_tasks_text,
                                     !.project_key = project_key],
                     "setup_master_data")]
  /\ MasterBegin(p, "create_wbs")
  /\ UNCHANGED <<tracker, lastRun, runsDone, firestore, gcs, sv, saveLog>>

\* setup_master_data, called by create_wbs, awaits the tracker
WbsMasterStep(p) ==
  /\ ws[p].pc = "MasterDataSetup"
  /\ ms[p].caller = "create_wbs"
  /\ \/ MasterGet(p)
     \/ MasterCreate(p)
     \/ MasterGetRaises(p)
     \/ MasterCreateRaises(p)
  /\ UNCHANGED <<ws, lastRun, runsDone, firestore, gcs, sv, saveLog>>

\* setup_master_data returned its result
WbsMasterDone(p) ==
  /\ ws[p].pc = "MasterDataSetup"
  /\ ms[p].caller = "create_wbs"
  /\ ms[p].pc = "done"
  /\ LET run == [ws[p] EXCEPT !.master_result = Some(ms[p].result),
                              !.result.master_data_created =
                                 master_data_created(ms[p].result)]
     IN ws' = [ws EXCEPT ![p] =
                 IF continue_after_setup(ms[p].result)
                 THEN complete(run, TRUE)
                 ELSE catch(run, "master data setup failed")]
  /\ ms' = [ms EXCEPT ![p] = MasterIdle]
  /\ UNCHANGED <<tracker, lastRun, runsDone, firestore, gcs, sv, saveLog>>

\* step 2: parse_service_type(template_url)
WbsResolveService(p) ==
  /\ ws[p].pc = "ResolveService"
  /\ LET service_type == parse_service_type(ws[p].template_url)
     IN ws' = [ws EXCEPT ![p] =
                 IF service_type.raised
                 THEN catch(ws[p], service_type.value)
                 ELSE complete([ws[p] EXCEPT !.service_type = service_type.value],
                               TRUE)]
  /\ UNCHANGED <<masterVars, storeVars>>

\* step 3: mcp_factory.create_client(service_type)
WbsCreateClient(p) ==
  /\ ws[p].pc = "CreateClient"
  /\ ws' = [ws EXCEPT ![p] = complete(ws[p], TRUE)]
  /\ UNCHANGED <<masterVars, storeVars>>

\* step 4: await mcp_client.fetch_data(template_url) returns
WbsFetchTemplate(p, template_data) ==
  /\ ws[p].pc = "FetchTemplate"
  /\ ws' = [ws EXCEPT ![p] =
              complete([invoke(ws[p], "fetch_data")
                          EXCEPT !.template_data = Some(template_data)], TRUE)]
  /\ UNCHANGED <<masterVars, storeVars>>

WbsFetchTemplateRaises(p) ==
  /\ ws[p].pc = "FetchTemplate"
  /\ ws' = [ws EXCEPT ![p] = catch(invoke(ws[p], "fetch_data"), "fetch_data failed")]
  /\ UNCHANGED <<masterVars, storeVars>>

\* steps 5-6: _process_template_data
WbsProcessTemplate(p) ==
  /\ ws[p].pc = "ProcessTemplate"
  /\ \E template_tasks \in {process_template_data(TheOne(ws[p].template_data),
                                                   ws[p].service_type)} :
       ws' = [ws EXCEPT ![p] =
                IF template_tasks.raised
                THEN catch(ws[p], template_tasks.value)
                ELSE complete([ws[p] EXCEPT !.template_tasks = template_tasks.value],
                              TRUE)]
  /\ UNCHANGED <<masterVars, storeVars>>

\* "_template"
TEMPLATE_SUFFIX == <<"_", "t", "e", "m", "p", "l", "a", "t", "e">>

\* step 7: storage_manager.save_data(parent_url=template_url,
\* file_url=template_url, file_name=f"{project_key}_template",
\* data=template_data, format="json") is called
WbsPersistBegin(p) ==
  /\ ws[p].pc = "PersistTemplate"
  /\ sv[p].pc = "idle"
  /\ ws' = [ws EXCEPT ![p] = invoke(ws[p], "save_data")]
  /\ SaveBegin(p, "create_wbs", ws[p].template_url, ws[p].template_url,
               ws[p].project_key \o TEMPLATE_SUFFIX,
               TheOne(ws[p].template_data), "json")
  /\ UNCHANGED <<masterVars, firestore, gcs, saveLog>>

\* step 7: save_data, called by create_wbs, awaits the stores
WbsPersistStep(p) ==
  /\ ws[p].pc = "PersistTemplate"
  /\ sv[p].caller = "create_wbs"
  /\ \/ SaveGetLatest(p)
     \/ SaveUpload(p)
     \/ SaveMetadata(p)
     \/ SaveGetLatestRaises(p)
     \/ SaveUploadRaises(p)
     \/ SaveMetadataRaises(p)
  /\ UNCHANGED <<ws, masterVars, saveLog>>

\* save_data returned: result.metadata_id = metadata.id
WbsPersistDone(p) ==
  /\ ws[p].pc = "PersistTemplate"
  /\ sv[p].caller = "create_wbs"
  /\ sv[p].pc = "returned"
  /\ ws' = [ws EXCEPT ![p] =
              complete([ws[p] EXCEPT !.result.metadata_id =
                                        Some(TheOne(sv[p].metadata).id)],
                       ws[p].new_tasks_text # <<>>)]
  /\ sv' = [sv EXCEPT ![p] = SaveIdle]
  /\ UNCHANGED <<masterVars, firestore, gcs, saveLog>>

\* save_data raised
WbsPersistRaised(p) ==
  /\ ws[p].pc = "PersistTemplate"
  /\ sv[p].caller = "create_wbs"
  /\ sv[p].pc = "raised"
  /\ ws' = [ws EXCEPT ![p] = catch(ws[p], sv[p].error)]
  /\ sv' = [sv EXCEPT ![p] = SaveIdle]
  /\ UNCHANGED <<masterVars, firestore, gcs, saveLog>>

\* step 8: converter.parse_tasks_from_text(new_tasks_text)
WbsParseNewTasks(p) ==
  /\ ws[p].pc = "ParseNewTasks"
  /\ LET new_tasks == parse_tasks_from_text(ws[p].new_tasks_text)
     IN ws' = [ws EXCEPT ![p] =
                 IF new_tasks.raised
                 THEN catch(ws[p], new_tasks.value)
                 ELSE complete([ws[p] EXCEPT !.new_tasks = new_tasks.value], TRUE)]
  /\ UNCHANGED <<masterVars, storeVars>>

\* step 9: task_merger.merge_tasks(template_tasks, new_tasks)
WbsMergeTasks(p) ==
  /\ ws[p].pc = "MergeTasks"
  /\ LET merged_tasks == merge_tasks(ws[p].template_tasks, ws[p].new_tasks)
     IN ws' = [ws EXCEPT ![p] =
                 IF merged_tasks.raised
                 THEN catch(ws[p], merged_tasks.value)
                 ELSE complete([ws[p] EXCEPT !.merged_tasks = merged_tasks.value],
                               TRUE)]
  /\ UNCHANGED <<masterVars, storeVars>>

\* step 10: _check_duplicates once get_tasks returned or raised;
\* result.skipped_tasks = duplicates; step 11 calls create_tasks if
\* tasks_to_register is not empty
DetectDuplicates(p, reply) ==
  /\ ws[p].pc = "DetectDuplicates"
  /\ LET parts == check_duplicates(ws[p].merged_tasks, reply)
         run == [invoke(ws[p], "get_tasks") EXCEPT !.existing = Some(reply),
                              !.tasks_to_register = parts.to_register,
                              !.result.skipped_tasks = parts.duplicates]
     IN ws' = [ws EXCEPT ![p] =
                 IF register_needed(parts.to_register)
                 THEN [invoke(complete(run, TRUE), "create_tasks")
                         EXCEPT !.remaining = parts.to_register,
                                !.passed = Some(parts.to_register)]
                 ELSE complete(run, FALSE)]
  /\ UNCHANGED <<masterVars, storeVars>>

\* BacklogMCPClient.get_tasks once _call_mcp returned: the response is not
\* read, the list returned is a new empty one
get_tasks(response) == <<>>

\* await backlog_client.get_tasks(project_key) returns, the client being the
\* repository's BacklogMCPClient
WbsDetectDuplicates(p) == DetectDuplicates(p, Returned(get_tasks(tracker.tasks)))

\* the same with a client handed to WBSService whose get_tasks returns the
\* summaries of existing tasks
WbsDetectDuplicatesGiven(p, existing_tasks) == DetectDuplicates(p, Returned(existing_tasks))

WbsDetectDuplicatesRaises(p) == DetectDuplicates(p, Raised("get_tasks failed"))

\* step 11: create_tasks creates the next task of the batch; after the last
\* one it returns and result.registered_tasks = tasks_to_register
WbsRegisterTask(p) ==
  /\ ws[p].pc = "RegisterTasks"
  /\ LET run == ws[p]
         task == Head(run.remaining)
         next == [run EXCEPT !.remaining = Tail(@), !.created = Append(@, task)]
     IN ws' = [ws EXCEPT ![p] =
                 IF Tail(run.remaining) = <<>>
                 THEN complete([next EXCEPT !.result.registered_tasks =
                                               run.tasks_to_register], TRUE)
                 ELSE next]
  /\ UNCHANGED <<masterVars, storeVars>>

\* create_tasks raises at the next task of the batch
WbsRegisterTaskRaises(p) ==
  /\ ws[p].pc = "RegisterTasks"
  /\ ws' = [ws EXCEPT ![p] = catch(ws[p], "create_tasks failed")]
  /\ UNCHANGED <<masterVars, storeVars>>

\* step 12: result.success = True; return result
WbsCompile(p) ==
  /\ ws[p].pc = "Compile"
  /\ ws' = [ws EXCEPT ![p] = complete([ws[p] EXCEPT !.result.success = TRUE], TRUE)]
  /\ UNCHANGED <<masterVars, storeVars>>

(***************************************************************************)
(* create_wbs called once, on a tracker project in any provisioning state  *)
(***************************************************************************)

\* "- Build\n- Kick\n  first meeting"
TEXT_TWO_TASKS ==
  <<"-", " ", "B", "u", "i", "l", "d", "\n", "-", " ", "K", "i", "c", "k",
    "\n", " ", " ", "f", "i", "r", "s", "t", " ", "m", "e", "e", "t", "i",
    "n", "g">>

\* "- Build | priority: High\n* build"
TEXT_SAME_TITLE ==
  <<"-", " ", "B", "u", "i", "l", "d", " ", "|", " ", "p", "r", "i", "o",
    "r", "i", "t", "y", ":", " ", "H", "i", "g", "h", "\n", "*", " ", "b",
    "u", "i", "l", "d">>

\* "- Deploy | category: リリース"
TEXT_WITH_CATEGORY ==
  <<"-", " ", "D", "e", "p", "l", "o", "y", " ", "|", " ", "c", "a", "t",
    "e", "g", "o", "r", "y", ":", " ", "u30EA", "u30EA", "u30FC", "u30B9">>

\* "- | priority: High"
TEXT_EMPTY_TITLE ==
  <<"-", " ", "|", " ", "p", "r", "i", "o", "r", "i", "t", "y", ":", " ",
    "H", "i", "g", "h">>

\* " "
TEXT_BLANK == <<" ">>

NewTaskTexts ==
  {NoText, TEXT_TWO_TASKS, TEXT_SAME_TITLE, TEXT_WITH_CATEGORY, TEXT_EMPTY_TITLE,
   TEXT_BLANK}

TemplateUrls == {URL_BACKLOG, URL_NOTION_ROOT, URL_OTHER, URL_FTP}

PROJECT_KEY == <<"P", "R", "O", "J">>

\* {"type": "page", "blocks": []}
DATA_PAGE == PyDict(<<PyItem(KEY_TYPE, TYPE_PAGE), PyItem(KEY_BLOCKS, PyList(<<>>))>>)

\* {"type": "database", "rows": None}
DATA_DATABASE == PyDict(<<PyItem(KEY_TYPE, TYPE_DATABASE), PyItem(KEY_ROWS, PyNone)>>)

\* what fetch_data returns: a dict
TemplateData == {DATA_PAGE, DATA_DATABASE}

\* the summaries of the tasks the project holds at the start
ExistingTasks ==
  {<<>>, <<<<"B", "U", "I", "L", "D">>>>,
   <<<<"k", "i", "c", "k">>, <<"O", "t", "h", "e", "r">>>>}

WbsProjects ==
  [issue_types : {<<ISSUE_TYPE_RISK>>, REQUIRED_ISSUE_TYPES},
   categories : {REQUIRED_CATEGORIES},
   custom_fields : {<<FIELD_INPUT>>, <<FIELD_GOAL_OUTPUT, FIELD_INPUT>>},
   tasks : ExistingTasks]

WbsIdleAll == ws = [p \in Procs |-> WbsIdle]

WbsInit ==
  /\ tracker \in WbsProjects
  /\ ms = [p \in Procs |-> MasterIdle]
  /\ lastRun = Nothing
  /\ runsDone = 0
  /\ WbsIdleAll

WbsCall(p) ==
  \E template_url \in TemplateUrls, new_tasks_text \in NewTaskTexts :
    WbsBegin(p, template_url, new_tasks_text, PROJECT_KEY)

WbsFetchReturns(p) == \E template_data \in TemplateData : WbsFetchTemplate(p, template_data)

(***************************************************************************)
(* create_wbs called once on a WBSService whose backlog_client is a client *)
(* handed to it, as the tests of the repository do                         *)
(***************************************************************************)

\* the project is provisioned but for one custom field, and holds no task
GivenClientProject ==
  [issue_types |-> REQUIRED_ISSUE_TYPES, categories |-> REQUIRED_CATEGORIES,
   custom_fields |-> <<FIELD_INPUT>>, tasks |-> <<>>]

GivenClientInit ==
  /\ tracker = GivenClientProject
  /\ ms = [p \in Procs |-> MasterIdle]
  /\ lastRun = Nothing
  /\ runsDone = 0
  /\ WbsIdleAll

\* setup_master_data, called by create_wbs, awaits that client, whose get_*
\* return the items the project holds
WbsMasterStepGiven(p) ==
  /\ ws[p].pc = "MasterDataSetup"
  /\ ms[p].caller = "create_wbs"
  /\ \/ MasterGetGiven(p, ItemsOf(tracker, Phases[ms[p].phase]))
     \/ MasterCreate(p)
     \/ MasterGetRaises(p)
     \/ MasterCreateRaises(p)
  /\ UNCHANGED <<ws, lastRun, runsDone, firestore, gcs, sv, saveLog>>

\* get_tasks of the client returns the summaries of some existing tasks
WbsDetectDuplicatesReturns(p) ==
  \E existing_tasks \in ExistingTasks : WbsDetectDuplicatesGiven(p, existing_tasks)

(***************************************************************************)
(* create_wbs called by two callers on one WBSService, the runs            *)
(* interleaved at their awaits                                             *)
(***************************************************************************)

\* the project both runs work on: one custom field and one task exist
OverlappingProject ==
  [issue_types |-> REQUIRED_ISSUE_TYPES, categories |-> REQUIRED_CATEGORIES,
   custom_fields |-> <<FIELD_INPUT>>, tasks |-> <<<<"B", "U", "I", "L", "D">>>>]

OverlappingUrls == {URL_BACKLOG, URL_OTHER}

OverlappingTexts == {NoText, TEXT_TWO_TASKS}

WbsOverlappingInit ==
  /\ tracker = OverlappingProject
  /\ ms = [p \in Procs |-> MasterIdle]
  /\ lastRun = Nothing
  /\ runsDone = 0
  /\ WbsIdleAll

\* the collaborator calls of a run that raised so far
FaultsOf(p) ==
  LET run == ws[p]
      failures == {"fetch_data failed", "create_tasks failed",
                   "get_latest_metadata failed", "upload_data failed",
                   "save_metadata failed"}
  IN (IF run.raised \in failures THEN 1 ELSE 0)
     + (IF sv[p].error \in failures THEN 1 ELSE 0)
     + Len(ms[p].result.errors)
     + (IF run.master_result = Nothing THEN 0
        ELSE Len(TheOne(run.master_result).errors))
     + (IF run.existing # Nothing /\ TheOne(run.existing).raised THEN 1 ELSE 0)

RECURSIVE FaultsIn(_)
FaultsIn(callers) ==
  IF callers = {} THEN 0
  ELSE LET p == CHOOSE q \in callers : TRUE
       IN FaultsOf(p) + FaultsIn(callers \ {p})

\* collaborator calls that raise, over both runs
MaxOverlappingFaults == 1

WbsCallOverlapping(p) ==
  \E template_url \in OverlappingUrls, new_tasks_text \in OverlappingTexts :
    WbsBegin(p, template_url, new_tasks_text, PROJECT_KEY)

(***************************************************************************)
(* integrations/backlog/client.py, integrations/notion/client.py:          *)
(* _call_mcp                                                               *)
(***************************************************************************)

max_retries == 3
retry_delay == 1  \* seconds

\* a wait that does not grow
backoff_delay_fixed(attempt) == retry_delay

\* delay = self.retry_delay * (2**attempt)
backoff_delay(attempt) == retry_delay * (2 ^ attempt)

\* attempts counts the passes through the try block, failures lists what they
\* raised and waits the delays slept, in order
McpIdle ==
  [pc |-> "idle", client |-> None, method |-> None, endpoint |-> None,
   attempt |-> 0, attempts |-> 0, failures |-> <<>>, waits |-> <<>>,
   outcome |-> Nothing]

\* _call_mcp is entered: for attempt in range(self.max_retries), attempt 0
McpBegin(client, method, endpoint) ==
  /\ rt.pc = "idle"
  /\ rt' = [McpIdle EXCEPT !.pc = "attempt", !.client = client,
                           !.method = method, !.endpoint = endpoint]

\* the call inside the try block returns: return {}
McpAttemptReturns ==
  /\ rt.pc = "attempt"
  /\ rt' = [rt EXCEPT !.pc = "returned", !.attempts = @ + 1,
                      !.outcome = Some(Returned("{}"))]

\* the call inside the try block raises e: re-raised when this was the last
\* attempt, otherwise asyncio.sleep(delay) is awaited
McpAttemptRaises(e) ==
  /\ rt.pc = "attempt"
  /\ IF rt.attempt = max_retries - 1
     THEN rt' = [rt EXCEPT !.pc = "raised", !.attempts = @ + 1,
                           !.failures = Append(@, e),
                           !.outcome = Some(Raised(e))]
     ELSE rt' = [rt EXCEPT !.pc = "sleep", !.attempts = @ + 1,
                           !.failures = Append(@, e),
                           !.waits = Append(@, backoff_delay(rt.attempt))]

\* the sleep is over: the next pass of the loop
McpSleepDone ==
  /\ rt.pc = "sleep"
  /\ rt' = [rt EXCEPT !.pc = "attempt", !.attempt = @ + 1]

(***************************************************************************)
(* _call_mcp applied to bounded calls                                      *)
(***************************************************************************)

McpClients == {"BacklogMCPClient", "NotionMCPClient"}
McpMethods == {"GET", "POST", "PATCH"}
McpEndpoints == {"/api/v2/issues", "/api/v2/projects"}
McpErrors == {"MCP connection failed", "timeout"}

RetryIdle == rt = McpIdle

McpCall ==
  \E client \in McpClients, method \in McpMethods, endpoint \in McpEndpoints :
    McpBegin(client, method, endpoint)

McpFails == \E e \in McpErrors : McpAttemptRaises(e)

(***************************************************************************)
(* mcp/schemas.py, mcp/handlers.py, main.py                                *)
(***************************************************************************)

\* A request: its method, whether its Content-Type is a JSON one, and the
\* bytes of its body, each a number of 0..255
Request(method, is_json, body) ==
  [method |-> method, is_json |-> is_json, body |-> body]

\* the byte order marks of codecs
BOM_UTF8 == <<239, 187, 191>>
BOM_UTF16_LE == <<255, 254>>
BOM_UTF16_BE == <<254, 255>>
BOM_UTF32_LE == <<255, 254, 0, 0>>
BOM_UTF32_BE == <<0, 0, 254, 255>>

\* b.startswith(prefix)
bstartswith(b, prefix) ==
  Len(b) >= Len(prefix) /\ SubSeq(b, 1, Len(prefix)) = prefix

\* json.detect_encoding: by the byte order mark, else by where the first
\* four bytes (or the two there are) have their zeros
detect_encoding(b) ==
  IF bstartswith(b, BOM_UTF32_BE) \/ bstartswith(b, BOM_UTF32_LE) THEN "utf-32"
  ELSE IF bstartswith(b, BOM_UTF16_BE) \/ bstartswith(b, BOM_UTF16_LE)
  THEN "utf-16"
  ELSE IF bstartswith(b, BOM_UTF8) THEN "utf-8-sig"
  ELSE IF Len(b) >= 4 /\ b[1] = 0
  THEN (IF b[2] # 0 THEN "utf-16-be" ELSE "utf-32-be")
  ELSE IF Len(b) >= 4 /\ b[2] = 0
  THEN (IF b[3] # 0 \/ b[4] # 0 THEN "utf-16-le" ELSE "utf-32-le")
  ELSE IF Len(b) = 2 /\ b[1] = 0 THEN "utf-16-be"
  ELSE IF Len(b) = 2 /\ b[2] = 0 THEN "utf-16-le"
  ELSE "utf-8"

HighSurrogates == 55296..56319
LowSurrogates == 56320..57343

\* the 16-bit units of b, the high byte first or last
utf16_units(b, big) ==
  [k \in 1..(Len(b) \div 2) |->
     IF big THEN (b[(2 * k) - 1] * 256) + b[2 * k]
     ELSE b[(2 * k) - 1] + (b[2 * k] * 256)]

\* the unit is the second of a surrogate pair
utf16_second(units, k) ==
  k > 1 /\ units[k] \in LowSurrogates /\ units[k - 1] \in HighSurrogates

utf16_starts(units) ==
  indexes_where(Len(units), LAMBDA k : ~utf16_second(units, k))

\* the code point at unit k: of the pair that starts there, else the unit,
\* be it a surrogate alone (surrogatepass)
utf16_code_point(units, k) ==
  IF k < Len(units) /\ utf16_second(units, k + 1)
  THEN 65536 + ((units[k] - 55296) * 1024) + (units[k + 1] - 56320)
  ELSE units[k]

utf16_text(units, starts) ==
  [k \in 1..Len(starts) |-> chr(utf16_code_point(units, starts[k]))]

\* b.decode("utf-16-be" or "utf-16-le", "surrogatepass")
decode_utf16(b, big) ==
  IF Len(b) % 2 # 0 THEN Raised("UnicodeDecodeError")
  ELSE Returned(utf16_text(utf16_units(b, big),
                           utf16_starts(utf16_units(b, big))))

\* the bytes of unit k of 32 bits, the highest first
utf32_unit(b, k, big) ==
  IF big THEN SubSeq(b, (4 * k) - 3, 4 * k)
  ELSE <<b[4 * k], b[(4 * k) - 1], b[(4 * k) - 2], b[(4 * k) - 3]>>

\* b.decode("utf-32-be" or "utf-32-le", "surrogatepass"): every unit is a
\* code point up to U+10FFFF
decode_utf32(b, big) ==
  IF \/ Len(b) % 4 # 0
     \/ \E k \in 1..(Len(b) \div 4) :
          utf32_unit(b, k, big)[1] # 0 \/ utf32_unit(b, k, big)[2] > 16
  THEN Raised("UnicodeDecodeError")
  ELSE Returned([k \in 1..(Len(b) \div 4) |->
                   chr((utf32_unit(b, k, big)[2] * 65536)
                         + (utf32_unit(b, k, big)[3] * 256)
                         + utf32_unit(b, k, big)[4])])

\* b without its first n bytes
bytes_from(b, n) == SubSeq(b, n + 1, Len(b))

\* b.decode(encoding, "surrogatepass") for the encodings detect_encoding
\* names; "utf-16", "utf-32" and "utf-8-sig" skip the byte order mark, which
\* b starts with when they are named
decode_bytes(b, encoding) ==
  CASE encoding = "utf-8" -> decode_utf8(b, TRUE)
    [] encoding = "utf-8-sig" -> decode_utf8(bytes_from(b, Len(BOM_UTF8)), TRUE)
    [] encoding = "utf-16-be" -> decode_utf16(b, TRUE)
    [] encoding = "utf-16-le" -> decode_utf16(b, FALSE)
    [] encoding = "utf-16" ->
         decode_utf16(bytes_from(b, Len(BOM_UTF16_BE)), bstartswith(b, BOM_UTF16_BE))
    [] encoding = "utf-32-be" -> decode_utf32(b, TRUE)
    [] encoding = "utf-32-le" -> decode_utf32(b, FALSE)
    [] encoding = "utf-32" ->
         decode_utf32(bytes_from(b, Len(BOM_UTF32_BE)), bstartswith(b, BOM_UTF32_BE))

\* json.loads of bytes: s.decode(detect_encoding(s), "surrogatepass") is
\* handed to the decoder, which takes no U+FEFF at the start either
loads_bytes(b) ==
  IF decode_bytes(b, detect_encoding(b)).raised
  THEN Raised("UnicodeDecodeError")
  ELSE json_loads(decode_bytes(b, detect_encoding(b)).value)

\* request.get_json(silent=True): the parsed body; None (nothing) when the
\* Content-Type is no JSON one or the body does not decode or parse
get_json(request) ==
  IF ~request.is_json THEN Nothing
  ELSE IF loads_bytes(request.body).raised THEN Nothing
  ELSE Some(loads_bytes(request.body).value)


\* not o: None, False, 0, 0.0 and the empty str, list, tuple and dict
py_falsy(o) ==
  IF PyType(o) = "none" THEN TRUE
  ELSE IF PyType(o) = "bool" THEN ~o.bool
  ELSE IF PyType(o) = "int" THEN o.int = 0
  ELSE IF PyType(o) = "float" THEN float_is_zero(o.float)
  ELSE IF PyType(o) = "str" THEN o.str = <<>>
  ELSE IF PyType(o) = "list" THEN o.list = <<>>
  ELSE IF PyType(o) = "tuple" THEN o.tuple = <<>>
  ELSE IF PyType(o) = "dict" THEN o.dict = <<>>
  ELSE FALSE

\* not request_data
is_falsy(request_data) ==
  request_data = Nothing \/ py_falsy(TheOne(request_data))

PROJECT_KEY_MAX_LENGTH == 50

KEY_TEMPLATE_URL ==
  PyStr(<<"t", "e", "m", "p", "l", "a", "t", "e", "_", "u", "r", "l">>)
KEY_NEW_TASKS_TEXT ==
  PyStr(<<"n", "e", "w", "_", "t", "a", "s", "k", "s", "_", "t", "e", "x", "t">>)
KEY_PROJECT_KEY ==
  PyStr(<<"p", "r", "o", "j", "e", "c", "t", "_", "k", "e", "y">>)

\* a required str member with min_length 1: a str without a surrogate, of
\* one character or more
is_required_str(data, k) ==
  /\ dict_has(data, k)
  /\ is_str(dict_get(data, k))
  /\ is_unicode_str(dict_get(data, k).str)
  /\ Len(dict_get(data, k).str) >= 1

\* an Optional[str] member without a constraint: absent, None, or a str
is_optional_str(data, k) ==
  dict_has(data, k) =>
    \/ PyType(dict_get(data, k)) = "none"
    \/ is_str(dict_get(data, k))

\* CreateWBSRequest(**request_data) does not raise: the body is an object (the
\* ** of anything else is a TypeError) whose members satisfy the schema;
\* members the schema does not name are ignored
validate_request(data) ==
  /\ is_dict(data)
  /\ is_required_str(data, KEY_TEMPLATE_URL)
  /\ is_optional_str(data, KEY_NEW_TASKS_TEXT)
  /\ is_required_str(data, KEY_PROJECT_KEY)
  /\ Len(dict_get(data, KEY_PROJECT_KEY).str) <= PROJECT_KEY_MAX_LENGTH

\* a str field of the validated request; None reads as no text
request_field(data, k) ==
  IF is_dict(data) /\ is_str(dict_get(data, k)) THEN dict_get(data, k).str
  ELSE NoText

\* the headers of the responses built inside the try block, and of the 500
CORS_HEADERS ==
  {"Content-Type", "Access-Control-Allow-Origin",
   "Access-Control-Allow-Methods", "Access-Control-Allow-Headers"}
ERROR_HEADERS == {"Content-Type", "Access-Control-Allow-Origin"}

\* Response(body, status=..., headers=...); an error_message is the sequence of
\* the parts it is formatted from
Response(body, status, headers) ==
  [body |-> body, status |-> status, headers |-> headers]
error_response(parts) == [success |-> FALSE, error_message |-> parts]

UNCATEGORIZED == "UNCATEGORIZED"  \* "未分類"

\* _task_to_summary
task_to_summary(task) ==
  [title |-> task.title, description |-> task.description,
   category |-> IF task.category # None THEN task.category ELSE UNCATEGORIZED,
   priority |-> task.priority, assignee |-> task.assignee]

summaries(tasks) == [i \in 1..Len(tasks) |-> task_to_summary(tasks[i])]

\* handle_create_wbs, given what the awaited create_wbs replied: the response
\* built from the result, or the error response of the except clause
handle_create_wbs(reply) ==
  IF reply.raised
  THEN [success |-> FALSE,
        error_message |-> <<"Internal error: ", reply.value>>,
        registered_tasks |-> <<>>, skipped_tasks |-> <<>>,
        metadata_id |-> Nothing, master_data_created |-> 0,
        total_registered |-> 0, total_skipped |-> 0]
  ELSE LET result == reply.value
       IN [success |-> result.success,
           error_message |-> IF result.error_message = None THEN <<>>
                             ELSE <<result.error_message>>,
           registered_tasks |-> summaries(result.registered_tasks),
           skipped_tasks |-> summaries(result.skipped_tasks),
           metadata_id |-> result.metadata_id,
           master_data_created |-> result.master_data_created,
           total_registered |-> Len(result.registered_tasks),
           total_skipped |-> Len(result.skipped_tasks)]

\* the try block of wbs_create up to asyncio.run(handle_create_wbs(...)): the
\* response it returns or the exception it raises before the handler runs,
\* nothing when it runs the handler.  request_data: what
\* request.get_json(silent=True) returns; run_raises: asyncio.run raises
\* before the pipeline is entered (a running event loop, or the handler's
\* statements ahead of its try block)
try_block(request, request_data, run_raises) ==
  IF request.method = "OPTIONS"
  THEN Some(Returned(Response(Nothing, 204, CORS_HEADERS)))
  ELSE IF request.method # "POST"
  THEN Some(Returned(Response(
         Some(error_response(
           <<"Method ", request.method, " not allowed. Use POST.">>)),
         405, CORS_HEADERS)))
  ELSE IF is_falsy(request_data)
  THEN Some(Returned(Response(
         Some(error_response(<<"Invalid JSON in request body">>)),
         400, CORS_HEADERS)))
  ELSE IF ~validate_request(TheOne(request_data))
  THEN Some(Returned(Response(
         Some(error_response(
           <<"Request validation error: ", "ValidationError">>)),
         400, CORS_HEADERS)))
  ELSE IF run_raises THEN Some(Raised("RuntimeError"))
  ELSE Nothing

\* an entry point without its except clause
catch_nothing(attempt) == attempt

\* except Exception as e: the 500 response
catch_unexpected(attempt) ==
  IF attempt # Nothing /\ TheOne(attempt).raised
  THEN Some(Returned(Response(
         Some(error_response(
           <<"Internal server error: ", TheOne(attempt).value>>)),
         500, ERROR_HEADERS)))
  ELSE attempt

\* a text of the summary holds a surrogate code point
summary_has_surrogate(summary) ==
  \/ ~is_encodable(summary.title)
  \/ ~is_encodable(summary.description)
  \/ ~is_encodable(summary.priority)
  \/ ~is_encodable(summary.assignee)

\* response.model_dump_json(): the exception it raises, None when it writes
\* the response.  The JSON text is UTF-8, which a surrogate code point of a
\* str field has no bytes in
model_dump_json_error(response) ==
  IF \/ \E i \in 1..Len(response.registered_tasks) :
          summary_has_surrogate(response.registered_tasks[i])
     \/ \E i \in 1..Len(response.skipped_tasks) :
          summary_has_surrogate(response.skipped_tasks[i])
  THEN "PydanticSerializationError"
  ELSE None

\* return Response(response.model_dump_json(), status=200, headers=headers)
respond(response) ==
  IF model_dump_json_error(response) = None
  THEN Returned(Response(Some(response), 200, CORS_HEADERS))
  ELSE Raised(model_dump_json_error(response))

\* wbs_create up to asyncio.run.  services: _services is set; init_raises:
\* _initialize_services raises when it has to build the services
wbs_create(services, init_raises, request, request_data, run_raises) ==
  IF ~services /\ init_raises THEN Some(Raised("Service init failed"))
  ELSE catch_unexpected(try_block(request, request_data, run_raises))

\* what ht holds of the wbs_create call of a thread: where it is, its
\* request, whether the initialization and asyncio.run raised in it, how it
\* ended, the number of create_wbs calls it made and the result of create_wbs
HttpCallIdle ==
  [pc |-> "idle", request |-> Nothing, init_raised |-> FALSE,
   run_raised |-> FALSE, outcome |-> Nothing, pipeline_calls |-> 0,
   result |-> Nothing]

\* the call of a request that ended with outcome, or that runs the handler
http_call(request, request_data, services, init_raises, run_raises, outcome) ==
  [pc |-> IF outcome = Nothing THEN "pipeline" ELSE "done",
   request |-> Some(request),
   init_raised |-> ~services /\ init_raises,
   run_raised |->
     /\ services \/ ~init_raises
     /\ try_block(request, request_data, run_raises) # Nothing
     /\ TheOne(try_block(request, request_data, run_raises)).raised,
   outcome |-> outcome,
   pipeline_calls |-> IF outcome = Nothing THEN 1 ELSE 0,
   result |-> Nothing]

\* wbs_create is called on a thread: the request is answered, or
\* asyncio.run(handle_create_wbs(...)) enters create_wbs and waits in it;
\* _services stays set once _initialize_services has returned
WbsCreate(p, request, init_raises, run_raises) ==
  /\ ht.call[p].pc # "pipeline"
  /\ \E request_data \in {get_json(request)} :
       \E outcome \in {wbs_create(ht.services, init_raises, request,
                                  request_data, run_raises)} :
         /\ ht' = [ht EXCEPT
                     !.services = ht.services \/ ~init_raises,
                     !.served = @ + 1,
                     !.call[p] = http_call(request, request_data, ht.services,
                                           init_raises, run_raises, outcome)]
         /\ IF outcome = Nothing
            THEN WbsBegin(p, request_field(TheOne(request_data), KEY_TEMPLATE_URL),
                          request_field(TheOne(request_data), KEY_NEW_TASKS_TEXT),
                          request_field(TheOne(request_data), KEY_PROJECT_KEY))
            ELSE UNCHANGED <<ws, tracker, ms, lastRun, runsDone, firestore, gcs,
                             sv, saveLog>>

\* create_wbs returned its result to handle_create_wbs, and wbs_create
\* answers with the response built from it, or with the 500 response when
\* the response cannot be written as JSON
WbsCreateReturn(p) ==
  /\ ht.call[p].pc = "pipeline"
  /\ ws[p].pc = "returned"
  /\ ht' = [ht EXCEPT
              !.call[p].pc = "done",
              !.call[p].result = Some(ws[p].result),
              !.call[p].outcome =
                 catch_unexpected(
                   Some(respond(handle_create_wbs(Returned(ws[p].result)))))]
  /\ ws' = [ws EXCEPT ![p] = WbsIdle]
  /\ UNCHANGED <<tracker, ms, lastRun, runsDone, firestore, gcs, sv, saveLog>>

(***************************************************************************)
(* wbs_create called with bounded requests on two threads of one instance  *)
(***************************************************************************)

MaxHttpRequests == 2

\* collaborator calls that raise, over the pipelines of both threads
MaxHttpFaults == 1

HttpMethods == {"POST", "OPTIONS", "GET", "PUT", "DELETE"}

\* a project key of 51 characters
LONG_PROJECT_KEY == [i \in 1..(PROJECT_KEY_MAX_LENGTH + 1) |-> "K"]

\* the bytes a client sends for a text: in UTF-8 (a surrogate as the three
\* bytes of its code point), and in UTF-16 with the low byte first and no
\* byte order mark, for a text of the Basic Multilingual Plane
encode_utf8(text) == ConcatAll([i \in 1..Len(text) |-> utf8(text[i])])
encode_utf16_le(text) ==
  ConcatAll([i \in 1..Len(text) |-> <<ord(text[i]) % 256, ord(text[i]) \div 256>>])

\* the text json.dumps writes for a dict of these members
TextOf(members) == json_dumps(PyDict(members)).value

\* that text as a body in UTF-8
BodyOf(members) == encode_utf8(TextOf(members))

\* "- A\n\udbffx", the surrogate written as the escape \udbff: the JSON
\* text of a str with a lone surrogate, in ASCII
JSON_TEXT_SURROGATE ==
  <<"\"", "-", " ", "A", "\\", "n", "\\", "u", "d", "b", "f", "f", "x", "\"">>

\* {"template_url": ..., "new_tasks_text": "- A\n\udbffx", "project_key": ...}
BODY_SURROGATE_DESCRIPTION ==
  encode_utf8(<<"{">> \o encode_basestring(KEY_TEMPLATE_URL.str) \o <<":">>
                \o encode_basestring(URL_BACKLOG) \o <<",">>
                \o encode_basestring(KEY_NEW_TASKS_TEXT.str) \o <<":">>
                \o JSON_TEXT_SURROGATE \o <<",">>
                \o encode_basestring(KEY_PROJECT_KEY.str) \o <<":">>
                \o encode_basestring(PROJECT_KEY) \o <<"}">>)

\* the members without new_tasks_text
BODY_TEMPLATE_ONLY ==
  BodyOf(<<PyItem(KEY_TEMPLATE_URL, PyStr(URL_OTHER)),
           PyItem(KEY_PROJECT_KEY, PyStr(PROJECT_KEY))>>)

\* no body, "{", "[]", "[1]", "{}", "0", "1", "1e-400" and a byte that is
\* no UTF-8; an object with none of the members of the schema; the members
\* without new_tasks_text, with null for it (in UTF-16) and with a member
\* besides; a missing project_key, an empty template_url, a number
\* for new_tasks_text, a project_key too long and one that is a surrogate;
\* a new_tasks_text whose description line holds a surrogate
HttpBodies ==
  { <<>>, encode_utf8(<<"{">>), encode_utf8(<<"[", "]">>),
    encode_utf8(<<"[", "1", "]">>), encode_utf8(<<"{", "}">>),
    encode_utf8(<<"0">>), encode_utf8(<<"1">>),
    encode_utf8(<<"1", "e", "-", "4", "0", "0">>), <<255>>,
    BodyOf(<<PyItem(PyStr(<<"i", "n", "v", "a", "l", "i", "d">>), PyNone)>>),
    BODY_TEMPLATE_ONLY,
    encode_utf16_le(TextOf(<<PyItem(KEY_TEMPLATE_URL, PyStr(URL_OTHER)),
                             PyItem(KEY_NEW_TASKS_TEXT, PyNone),
                             PyItem(KEY_PROJECT_KEY, PyStr(PROJECT_KEY))>>)),
    BodyOf(<<PyItem(KEY_TEMPLATE_URL, PyStr(URL_BACKLOG)),
             PyItem(KEY_NEW_TASKS_TEXT, PyStr(TEXT_TWO_TASKS)),
             PyItem(KEY_PROJECT_KEY, PyStr(PROJECT_KEY)),
             PyItem(PyStr(<<"n", "o", "t", "e">>), PyInt(1))>>),
    BodyOf(<<PyItem(KEY_TEMPLATE_URL, PyStr(URL_BACKLOG))>>),
    BodyOf(<<PyItem(KEY_TEMPLATE_URL, PyStr(<<>>)),
             PyItem(KEY_PROJECT_KEY, PyStr(PROJECT_KEY))>>),
    BodyOf(<<PyItem(KEY_TEMPLATE_URL, PyStr(URL_BACKLOG)),
             PyItem(KEY_NEW_TASKS_TEXT, PyInt(7)),
             PyItem(KEY_PROJECT_KEY, PyStr(PROJECT_KEY))>>),
    BodyOf(<<PyItem(KEY_TEMPLATE_URL, PyStr(URL_BACKLOG)),
             PyItem(KEY_PROJECT_KEY, PyStr(LONG_PROJECT_KEY))>>),
    BodyOf(<<PyItem(KEY_TEMPLATE_URL, PyStr(URL_BACKLOG)),
             PyItem(KEY_PROJECT_KEY, PyStr(<<"uD800">>))>>),
    BODY_SURROGATE_DESCRIPTION }

\* a POST of every body as application/json, every other method with a body
\* that satisfies the schema, and a POST of that body as text/plain
HttpRequests ==
  {Request("POST", TRUE, body) : body \in HttpBodies}
    \cup {Request(method, TRUE, BODY_TEMPLATE_ONLY) : method \in HttpMethods}
    \cup {Request("POST", FALSE, BODY_TEMPLATE_ONLY)}

HttpIdle ==
  ht = [services |-> FALSE, served |-> 0, call |-> [p \in Procs |-> HttpCallIdle]]

\* the project of the requests: one custom field is missing, one task exists
HttpProject ==
  [issue_types |-> REQUIRED_ISSUE_TYPES, categories |-> REQUIRED_CATEGORIES,
   custom_fields |-> <<FIELD_INPUT>>, tasks |-> <<<<"B", "U", "I", "L", "D">>>>]

HttpInit ==
  /\ tracker = HttpProject
  /\ ms = [p \in Procs |-> MasterIdle]
  /\ lastRun = Nothing
  /\ runsDone = 0
  /\ WbsIdleAll

HttpCall(p) ==
  /\ ht.served < MaxHttpRequests
  /\ \E request \in HttpRequests :
       \E init_raises \in IF ht.services THEN {FALSE} ELSE BOOLEAN,
          run_raises \in IF request.method = "POST" THEN BOOLEAN ELSE {FALSE} :
         WbsCreate(p, request, init_raises, run_raises)

(***************************************************************************)
(* merge_tasks applied to lists of Task objects                            *)
(***************************************************************************)

MaxObjects == 2
MaxListLen == 2

ObjectPool ==
  { Task(<<"B", "u", "i", "l", "d">>, NoText, None),
    Task(<<"Q", "A">>, <<"c", "h", "e", "c", "k">>, None),
    Task(<<"D", "e", "p", "l", "o", "y">>, NoText, "RELEASE"),
    WithMember(Task(<<"I", "m", "p", "l">>, NoText, "IMPLEMENTATION")) }

MergeObjectsIdle ==
  mh = [before |-> <<>>, heap |-> <<>>, template_ids |-> <<>>,
        new_ids |-> <<>>, out |-> Nothing]

\* the objects that exist before the call, and the two argument lists; a list
\* may hold an object twice, and the lists may share objects
MergeObjectsInit ==
  \E heap \in SeqsUpTo(ObjectPool, MaxObjects) :
    \E template_ids \in SeqsUpTo(1..Len(heap), MaxListLen),
       new_ids \in SeqsUpTo(1..Len(heap), MaxListLen) :
      mh = [before |-> heap, heap |-> heap, template_ids |-> template_ids,
            new_ids |-> new_ids, out |-> Nothing]

MergeTaskObjects ==
  /\ mh.out = Nothing
  /\ LET call == merge_task_objects(mh.heap, mh.template_ids, mh.new_ids)
     IN mh' = [mh EXCEPT !.heap = call.heap, !.out = Some(call.outcome)]

\* every driver of a single operation at rest
DirectIdle ==
  DetectIdle /\ ParseIdle /\ UrlIdle /\ HttpIdle /\ MergeObjectsIdle /\ ReadIdle
    /\ RetryIdle

(***************************************************************************)
(* Specifications                                                          *)
(***************************************************************************)

SeqProcs == {"p1"}

\* merge_tasks on every pair of bounded task lists
SpecMergeInit == MergeInit /\ StoreIdle /\ MasterIdleAll /\ WbsIdleAll /\ DirectIdle
SpecMergeNext == MergeTasks /\ UNCHANGED <<storeVars, masterVars, ws, directVars>>
SpecMerge == SpecMergeInit /\ [][SpecMergeNext]_vars

\* sequential save_data calls against one metadata collection and one bucket
SpecStoreInit == MergeIdle /\ StoreIdle /\ MasterIdleAll /\ WbsIdleAll /\ DirectIdle
SpecStoreNext ==
  /\ \E p \in SeqProcs :
       StoreCall(p) \/ StoreStepOk(p) \/ StoreStepRaises(p) \/ StoreReturn(p)
  /\ UNCHANGED <<mergeVars, masterVars, ws, directVars>>
SpecStore == SpecStoreInit /\ [][SpecStoreNext]_vars

\* sequential save_data calls, and get_data_by_version calls beside them
SpecStoreReadInit == SpecStoreInit
SpecStoreReadNext ==
  \/ /\ \E p \in SeqProcs :
          StoreCallRead(p) \/ StoreStepOk(p) \/ StoreStepRaises(p) \/ StoreReturn(p)
     /\ UNCHANGED <<mergeVars, masterVars, ws, directVars>>
  \/ /\ StoreGetDataByVersion \/ ReadGetMetadata \/ ReadGetData
     /\ UNCHANGED <<mergeVars, masterVars, ws, dt, pr, ur, ht, mh, rt>>
SpecStoreRead == SpecStoreReadInit /\ [][SpecStoreReadNext]_vars

\* the same, and a caller that deletes blobs
SpecStoreDeleteNext ==
  \/ SpecStoreReadNext
  \/ /\ StoreDeleteFile
     /\ UNCHANGED <<mergeVars, masterVars, ws, directVars>>
SpecStoreDelete == SpecStoreReadInit /\ [][SpecStoreDeleteNext]_vars

\* save_data calls of two callers, interleaved at their awaits
SpecStoreOverlappingNext ==
  /\ \E p \in Procs :
       \/ StoreCallOverlapping(p)
       \/ StoreStepOk(p)
       \/ StoreStepRaises(p)
       \/ StoreReturn(p)
  /\ UNCHANGED <<mergeVars, masterVars, ws, directVars>>
SpecStoreOverlapping == SpecStoreInit /\ [][SpecStoreOverlappingNext]_vars

\* sequential setup_master_data calls of a MasterService that was handed a
\* client, whose get_* return lists of existing items
SpecMasterInit == MergeIdle /\ StoreIdle /\ MasterIdleAll /\ WbsIdleAll /\ DirectIdle
SpecMasterNext ==
  /\ \E p \in SeqProcs :
       MasterCall(p) \/ MasterStepGiven(p) \/ MasterStepRaises(p) \/ MasterReturn(p)
  /\ UNCHANGED <<mergeVars, storeVars, ws, directVars>>
SpecMaster == SpecMasterInit /\ [][SpecMasterNext]_vars

\* sequential setup_master_data calls of a MasterService on the repository's
\* BacklogMCPClient, against a tracker project in any provisioning state
SpecMasterBacklogInit == MergeIdle /\ StoreIdle /\ MasterInit /\ WbsIdleAll /\ DirectIdle
SpecMasterBacklogNext ==
  /\ \E p \in SeqProcs :
       MasterCall(p) \/ MasterStepOk(p) \/ MasterStepRaises(p) \/ MasterReturn(p)
  /\ UNCHANGED <<mergeVars, storeVars, ws, directVars>>
SpecMasterBacklog == SpecMasterBacklogInit /\ [][SpecMasterBacklogNext]_vars

\* setup_master_data runs of two callers on that client, interleaved at their
\* awaits
SpecMasterOverlappingInit ==
  MergeIdle /\ StoreIdle /\ MasterOverlappingInit /\ WbsIdleAll /\ DirectIdle
SpecMasterOverlappingNext ==
  /\ \E p \in Procs :
       \/ MasterCallOverlapping(p)
       \/ MasterStepOk(p)
       \/ MasterStepRaises(p)
       \/ MasterReturn(p)
  /\ UNCHANGED <<mergeVars, storeVars, ws, directVars>>
SpecMasterOverlapping == SpecMasterOverlappingInit /\ [][SpecMasterOverlappingNext]_vars

\* one create_wbs run against the tracker and the stores
Init == MergeIdle /\ StoreIdle /\ WbsInit /\ DirectIdle
Next ==
  /\ \E p \in SeqProcs :
       \/ WbsCall(p)
       \/ WbsMasterStep(p)
       \/ WbsMasterDone(p)
       \/ WbsResolveService(p)
       \/ WbsCreateClient(p)
       \/ WbsFetchReturns(p)
       \/ WbsFetchTemplateRaises(p)
       \/ WbsProcessTemplate(p)
       \/ WbsPersistBegin(p)
       \/ WbsPersistStep(p)
       \/ WbsPersistDone(p)
       \/ WbsPersistRaised(p)
       \/ WbsParseNewTasks(p)
       \/ WbsMergeTasks(p)
       \/ WbsDetectDuplicates(p)
       \/ WbsDetectDuplicatesRaises(p)
       \/ WbsRegisterTask(p)
       \/ WbsRegisterTaskRaises(p)
       \/ WbsCompile(p)
  /\ UNCHANGED <<mergeVars, directVars>>
Spec == Init /\ [][Next]_vars

\* detect_category on every pair of bounded tasks
SpecDetectInit ==
  MergeIdle /\ StoreIdle /\ MasterIdleAll /\ WbsIdleAll /\ DetectInit /\ ParseIdle
    /\ UrlIdle /\ HttpIdle /\ MergeObjectsIdle /\ ReadIdle
    /\ RetryIdle
SpecDetectNext ==
  /\ DetectFirst \/ DetectSecond
  /\ UNCHANGED <<mergeVars, storeVars, masterVars, ws, pr, ur, ht, mh, rd, rt>>
SpecDetect == SpecDetectInit /\ [][SpecDetectNext]_vars

\* parse_tasks_from_text on every bounded text, then merge_tasks on its tasks
SpecParseInit ==
  MergeIdle /\ StoreIdle /\ MasterIdleAll /\ WbsIdleAll /\ DetectIdle /\ ParseInit
    /\ UrlIdle /\ HttpIdle /\ MergeObjectsIdle /\ ReadIdle
    /\ RetryIdle
SpecParseNext ==
  /\ ParseTasks \/ MergeParsed
  /\ UNCHANGED <<mergeVars, storeVars, masterVars, ws, dt, ur, ht, mh, rd, rt>>
SpecParse == SpecParseInit /\ [][SpecParseNext]_vars

\* parse_service_type on every bounded URL
SpecUrlInit ==
  MergeIdle /\ StoreIdle /\ MasterIdleAll /\ WbsIdleAll /\ DetectIdle /\ ParseIdle
    /\ UrlInit /\ HttpIdle /\ MergeObjectsIdle /\ ReadIdle
    /\ RetryIdle
SpecUrlNext ==
  /\ ParseServiceType
  /\ UNCHANGED <<mergeVars, storeVars, masterVars, ws, dt, pr, ht, mh, rd, rt>>
SpecUrl == SpecUrlInit /\ [][SpecUrlNext]_vars

\* wbs_create called on two threads, the pipelines interleaved at their awaits
SpecHttpInit ==
  MergeIdle /\ StoreIdle /\ HttpInit /\ DetectIdle /\ ParseIdle
    /\ UrlIdle /\ HttpIdle /\ MergeObjectsIdle /\ ReadIdle
    /\ RetryIdle
SpecHttpNext ==
  /\ \E p \in Procs :
       \/ HttpCall(p)
       \/ WbsCreateReturn(p)
       \/ /\ \/ WbsMasterStep(p)
             \/ WbsMasterDone(p)
             \/ WbsResolveService(p)
             \/ WbsCreateClient(p)
             \/ WbsFetchTemplate(p, DATA_PAGE)
             \/ WbsFetchTemplateRaises(p)
             \/ WbsProcessTemplate(p)
             \/ WbsPersistBegin(p)
             \/ WbsPersistStep(p)
             \/ WbsPersistDone(p)
             \/ WbsPersistRaised(p)
             \/ WbsParseNewTasks(p)
             \/ WbsMergeTasks(p)
             \/ WbsDetectDuplicates(p)
             \/ WbsDetectDuplicatesRaises(p)
             \/ WbsRegisterTask(p)
             \/ WbsRegisterTaskRaises(p)
             \/ WbsCompile(p)
          /\ UNCHANGED ht
  /\ UNCHANGED <<mergeVars, dt, pr, ur, mh, rd, rt>>
  /\ FaultsIn(Procs)' <= MaxHttpFaults
SpecHttp == SpecHttpInit /\ [][SpecHttpNext]_vars

\* one create_wbs run of a WBSService that was handed a client whose get_tasks
\* returns existing tasks
SpecGivenClientNext ==
  /\ \E p \in SeqProcs :
       \/ WbsCall(p)
       \/ WbsMasterStepGiven(p)
       \/ WbsMasterDone(p)
       \/ WbsResolveService(p)
       \/ WbsCreateClient(p)
       \/ WbsFetchReturns(p)
       \/ WbsFetchTemplateRaises(p)
       \/ WbsProcessTemplate(p)
       \/ WbsPersistBegin(p)
       \/ WbsPersistStep(p)
       \/ WbsPersistDone(p)
       \/ WbsPersistRaised(p)
       \/ WbsParseNewTasks(p)
       \/ WbsMergeTasks(p)
       \/ WbsDetectDuplicatesReturns(p)
       \/ WbsDetectDuplicatesRaises(p)
       \/ WbsRegisterTask(p)
       \/ WbsRegisterTaskRaises(p)
       \/ WbsCompile(p)
  /\ UNCHANGED <<mergeVars, directVars>>
SpecGivenClientInit == MergeIdle /\ StoreIdle /\ GivenClientInit /\ DirectIdle
SpecGivenClient == SpecGivenClientInit /\ [][SpecGivenClientNext]_vars

\* one _call_mcp call of either client, each attempt of which may fail
SpecRetryInit ==
  MergeIdle /\ StoreIdle /\ MasterIdleAll /\ WbsIdleAll /\ DetectIdle /\ ParseIdle
    /\ UrlIdle /\ HttpIdle /\ MergeObjectsIdle /\ ReadIdle
    /\ RetryIdle
SpecRetryNext ==
  /\ McpCall \/ McpAttemptReturns \/ McpFails \/ McpSleepDone
  /\ UNCHANGED <<mergeVars, storeVars, masterVars, ws, dt, pr, ur, ht, mh, rd>>
SpecRetry == SpecRetryInit /\ [][SpecRetryNext]_vars

\* merge_tasks on every bounded heap and pair of argument lists
SpecMergeObjectsInit ==
  MergeIdle /\ StoreIdle /\ MasterIdleAll /\ WbsIdleAll /\ DetectIdle /\ ParseIdle
    /\ UrlIdle /\ HttpIdle /\ MergeObjectsInit /\ ReadIdle
    /\ RetryIdle
SpecMergeObjectsNext ==
  /\ MergeTaskObjects
  /\ UNCHANGED <<mergeVars, storeVars, masterVars, ws, dt, pr, ur, ht, rd, rt>>
SpecMergeObjects == SpecMergeObjectsInit /\ [][SpecMergeObjectsNext]_vars

\* two create_wbs runs on one service, one tracker project and one store
SpecOverlappingInit == MergeIdle /\ StoreIdle /\ WbsOverlappingInit /\ DirectIdle
SpecOverlappingNext ==
  /\ \E p \in Procs :
       \/ WbsCallOverlapping(p)
       \/ WbsMasterStep(p)
       \/ WbsMasterDone(p)
       \/ WbsResolveService(p)
       \/ WbsCreateClient(p)
       \/ WbsFetchReturns(p)
       \/ WbsFetchTemplateRaises(p)
       \/ WbsProcessTemplate(p)
       \/ WbsPersistBegin(p)
       \/ WbsPersistStep(p)
       \/ WbsPersistDone(p)
       \/ WbsPersistRaised(p)
       \/ WbsParseNewTasks(p)
       \/ WbsMergeTasks(p)
       \/ WbsDetectDuplicates(p)
       \/ WbsDetectDuplicatesRaises(p)
       \/ WbsRegisterTask(p)
       \/ WbsRegisterTaskRaises(p)
       \/ WbsCompile(p)
  /\ UNCHANGED <<mergeVars, directVars>>
  /\ FaultsIn(Procs)' <= MaxOverlappingFaults
SpecOverlapping == SpecOverlappingInit /\ [][SpecOverlappingNext]_vars

(***************************************************************************)
(* Properties of merge_tasks (SpecMerge)                                   *)
(***************************************************************************)

MergeReturned == merged_out # Nothing /\ ~TheOne(merged_out).raised

MergedTasks == TheOne(merged_out).value

\* C10: the output of merge_tasks is sorted by CATEGORY_ORDER: no task is
\* followed by a task of an earlier category.
C10_MergeSortedByCategory ==
  MergeReturned =>
    \A i, j \in 1..Len(MergedTasks) :
      i < j => get_category_order_index(MergedTasks[i].category)
                 <= get_category_order_index(MergedTasks[j].category)

\* C10 witness: a merge of template and new tasks that had to reorder them
C10_Witness ==
  /\ MergeReturned
  /\ Len(template_tasks_in) >= 1 /\ Len(new_tasks_in) >= 2
  /\ Len(MergedTasks) = Len(template_tasks_in) + Len(new_tasks_in)
  /\ \E i \in 1..Len(MergedTasks) :
       MergedTasks[i].title # (template_tasks_in \o new_tasks_in)[i].title
  /\ \E i, j \in 1..Len(MergedTasks) : MergedTasks[i].category # MergedTasks[j].category

\* the tasks of a list that carry the category, in the list's order
OfCategory(tasks, category) ==
  SelectSeq(tasks, LAMBDA t : t.category = category)

\* the new tasks as merge_tasks classified them, in the parsed order
ClassifiedNewTasks ==
  [i \in 1..Len(new_tasks_in) |-> categorize_one(new_tasks_in[i])]

\* C11: within each category of the merge_tasks output the template tasks of
\* that category come first, in their order in the template list, followed
\* by the new tasks of that category, in their order in the parsed list.
C11_TemplateBeforeNewInOrder ==
  MergeReturned =>
    LET classified == ClassifiedNewTasks
    IN \A c \in Categories :
         OfCategory(MergedTasks, c)
           = OfCategory(template_tasks_in, c) \o OfCategory(classified, c)

\* C11 witness: a merge whose output holds, in one category, two different
\* template tasks and two different new tasks
C11_Witness ==
  /\ MergeReturned
  /\ \E c \in Categories :
       /\ Len(OfCategory(template_tasks_in, c)) = 2
       /\ Len(OfCategory(ClassifiedNewTasks, c)) = 2
       /\ Cardinality({MergedTasks[i] : i \in 1..Len(MergedTasks)}) = 4

\* task is one of the tasks of the list
IsIn(task, tasks) == \E k \in 1..Len(tasks) : tasks[k] = task

\* C12 as stated: merge_tasks completes without error; a new task without
\* category is in the output with the classifier's result, a new task that
\* carries a category is in the output as it was given, and so is every
\* template task.
C12_ClassifiesExactlyUnset ==
  merged_out # Nothing =>
    /\ ~TheOne(merged_out).raised
    /\ \A i \in 1..Len(new_tasks_in) :
         LET task == new_tasks_in[i]
         IN IF task.category = None
            THEN \E k \in 1..Len(MergedTasks) :
                   /\ MergedTasks[k].title = task.title
                   /\ MergedTasks[k].category = detect_category(task)
            ELSE IsIn(task, MergedTasks)
    /\ \A i \in 1..Len(template_tasks_in) : IsIn(template_tasks_in[i], MergedTasks)

(***************************************************************************)
(* Properties of save_data (SpecStore)                                     *)
(***************************************************************************)

\* the successful calls among the first n finished calls for file_url
SavesOf(file_url, n) ==
  {i \in 1..n : saveLog[i].file_url = file_url /\ saveLog[i].metadata # Nothing}

\* the versions of the documents stored under file_url
StoredVersions(file_url) ==
  {firestore[i].version : i \in docs_for(firestore, file_url)}

\* C6: for a fixed file_url the k-th successful save_data call returns
\* version k, and the documents stored for a file_url carry the versions
\* 1..n, each once.
C6_VersionsGapFree ==
  /\ \A i \in 1..Len(saveLog) :
       saveLog[i].metadata # Nothing =>
         TheOne(saveLog[i].metadata).version
           = Cardinality(SavesOf(saveLog[i].file_url, i))
  /\ \A i \in 1..Len(firestore) :
       LET n == Cardinality(docs_for(firestore, firestore[i].file_url))
       IN StoredVersions(firestore[i].file_url) = 1..n

\* C7: every stored metadata document points at a path that holds uploaded
\* content, and a call whose upload failed stored no document: the documents
\* are exactly those of the calls that got past save_metadata.
C7_MetadataPointsAtContent ==
  /\ \A i \in 1..Len(firestore) : firestore[i].gcs_path \in DOMAIN gcs
  /\ Len(firestore)
       = Cardinality({i \in 1..Len(saveLog) : saveLog[i].metadata # Nothing})
         + Cardinality({p \in Procs : sv[p].pc = "returned"})

\* C7 witness: a document is stored, and a later call failed in its upload
C7_Witness ==
  /\ Len(firestore) >= 1
  /\ \E i \in 1..Len(saveLog) :
       /\ saveLog[i].error = "upload_data failed"
       /\ \E j \in 1..(i - 1) : saveLog[j].metadata # Nothing


\* C20: nothing in save_data prevents two overlapping calls for one file_url
\* from writing the same version: the record a call stores carries the
\* version and the path the call computed from its own read of the latest
\* version, whatever has been stored for the file_url since that read.
C20_WritesTheVersionItRead ==
  [][\A p \in Procs :
       (sv[p].pc = "save_metadata" /\ sv'[p].pc = "returned") =>
         /\ Len(firestore') = Len(firestore) + 1
         /\ firestore'[Len(firestore')].version = TheOne(sv[p].metadata).version
         /\ firestore'[Len(firestore')].gcs_path = TheOne(sv[p].metadata).gcs_path
         /\ SubSeq(firestore', 1, Len(firestore)) = firestore]_vars

\* two overlapping calls for one file_url both read that no version is
\* stored and both wrote: two records of the file_url carry version 1
C20_Witness ==
  /\ \A p \in Procs :
       /\ sv[p].pc = "returned"
       /\ sv[p].file_url = URL_BACKLOG
       /\ TheOne(sv[p].metadata).version = 1
  /\ \E i, j \in 1..Len(firestore) :
       /\ i < j
       /\ firestore[i].file_url = URL_BACKLOG
       /\ firestore[j].file_url = URL_BACKLOG
       /\ firestore[i].version = firestore[j].version

(***************************************************************************)
(* Properties of setup_master_data (SpecMaster)                            *)
(***************************************************************************)

PhaseIndex(phase) == CHOOSE k \in 1..Len(Phases) : Phases[k] = phase

\* the phases in which some collaborator call of the run raised, in order
FailedPhases(run) ==
  SelectSeq(Phases, LAMBDA ph :
    \E i \in 1..Len(run.calls) : run.calls[i].phase = ph /\ ~run.calls[i].ok)

\* the phases whose fetch of the existing items has been called, in call order
FetchedPhases(run) ==
  LET gets == SelectSeq(run.calls, LAMBDA c : c.op = "get")
  IN [i \in 1..Len(gets) |-> gets[i].phase]

CreateCalls(run) == SelectSeq(run.calls, LAMBDA c : c.op = "create")

\* the names whose create_* call returned during the given phase of a run
CreatedInTracker(calls, phase) ==
  LET made == SelectSeq(calls, LAMBDA c : c.op = "create" /\ c.ok /\ c.phase = phase)
  IN [i \in 1..Len(made) |-> made[i].arg]

\* C4: setup_master_data runs its three phases in the order issue types,
\* categories, custom fields; a call that raises in a phase ends that phase
\* and is recorded as exactly one entry of errors naming the phase, the
\* later phases still run, and the run always ends by returning its result.
C4_PhasesRunInOrderPastErrors ==
  \A p \in Procs :
    LET run == ms[p]
    IN /\ run.pc \in {"idle", "get", "create", "done"}
       /\ \A i, j \in 1..Len(run.calls) :
            i < j => PhaseIndex(run.calls[i].phase) <= PhaseIndex(run.calls[j].phase)
       /\ \A i \in 1..Len(run.calls) :
            ~run.calls[i].ok =>
              \A j \in 1..Len(run.calls) : j > i => run.calls[j].phase # run.calls[i].phase
       /\ [i \in 1..Len(run.result.errors) |-> run.result.errors[i].failed_to_setup]
            = FailedPhases(run)
       /\ run.pc = "done" => FetchedPhases(run) = Phases

\* a finished run whose first phase failed and whose later phases created items
C4_Witness ==
  \E p \in Procs :
    /\ ms[p].pc = "done"
    /\ Len(ms[p].result.errors) = 2
    /\ ms[p].result.errors[1].failed_to_setup = "issue types"
    /\ ms[p].result.errors[2].failed_to_setup = "custom fields"
    /\ Len(ms[p].result.created_categories) = Len(REQUIRED_CATEGORIES)

\* C5 as stated: a run that began on a fully provisioned project makes no
\* create call and returns total_created = 0 and success = TRUE, on every
\* call; and a run that follows a successful run makes no create call.
C5_Idempotent ==
  \A p \in Procs :
    /\ ms[p].provisioned =>
         /\ CreateCalls(ms[p]) = <<>>
         /\ ms[p].pc = "done" =>
              total_created(ms[p].result) = 0 /\ success(ms[p].result)
    /\ (ms[p].pc # "idle" /\ lastRun # Nothing /\ success(TheOne(lastRun).result)) =>
         CreateCalls(ms[p]) = <<>>

\* the calls a run made in a phase, in call order
PhaseCalls(run, phase) == SelectSeq(run.calls, LAMBDA c : c.phase = phase)

\* the phase has ended in the run: by return, or by an exception
PhaseEnded(run, phase) ==
  run.pc = "done" \/ (run.pc # "idle" /\ run.phase > PhaseIndex(phase))

\* C16: in each phase setup_master_data first fetches the existing items and
\* then calls create once for each required item whose name is not among
\* the fetched names, in the order of the required list, and for no other
\* item; a phase that ended without an exception has created all of them.
C16_CreatesExactlyTheMissing ==
  \A p \in Procs, k \in 1..Len(Phases) :
    LET run == ms[p]
        calls == PhaseCalls(run, Phases[k])
        required == RequiredNames(Phases[k])
        wanted == SelectSeq(required, LAMBDA n : n \notin calls[1].arg)
        creates == [i \in 1..(Len(calls) - 1) |-> calls[i + 1]]
    IN calls # <<>> =>
         /\ calls[1].op = "get"
         /\ \A i \in 1..Len(creates) : creates[i].op = "create"
         /\ ~calls[1].ok => creates = <<>>
         /\ Len(creates) <= Len(wanted)
         /\ \A i \in 1..Len(creates) : creates[i].arg = wanted[i]
         /\ \A i \in 1..Len(creates) : creates[i].arg \notin calls[1].arg
         /\ (PhaseEnded(run, Phases[k]) /\ \A i \in 1..Len(calls) : calls[i].ok) =>
              Len(creates) = Len(wanted)

\* a finished run created the five categories the project lacked, in the
\* order of the required list, and not the two it held
C16_Witness ==
  \E p \in Procs :
    LET calls == PhaseCalls(ms[p], "categories")
    IN /\ ms[p].pc = "done"
       /\ Len(calls) = 6
       /\ Cardinality(calls[1].arg) = 2
       /\ \A i \in 1..Len(calls) : calls[i].ok
       /\ ms[p].result.created_categories =
            SelectSeq(REQUIRED_CATEGORIES, LAMBDA n : n \notin calls[1].arg)
       /\ Len(ms[p].result.created_categories) = 5

\* C17: for every result setup_master_data returns, success holds exactly
\* when errors is empty, errors has one entry for each phase that failed
\* (none to three), and total_created is the sum of the lengths of
\* created_issue_types, created_categories and created_custom_fields.
C17_ResultIsConsistent ==
  \A p \in Procs :
    LET run == ms[p]
        result == run.result
    IN run.pc = "done" =>
         /\ success(result) <=> result.errors = <<>>
         /\ success(result) <=> FailedPhases(run) = <<>>
         /\ Len(result.errors) = Len(FailedPhases(run))
         /\ Len(result.errors) \in 0..Len(Phases)
         /\ total_created(result) =
              Len(result.created_issue_types) + Len(result.created_categories)
                + Len(result.created_custom_fields)

\* a result with one error and created items in the two other phases
C17_Witness ==
  \E p \in Procs :
    /\ ms[p].pc = "done"
    /\ Len(ms[p].result.errors) = 1
    /\ ~success(ms[p].result)
    /\ Len(ms[p].result.created_issue_types) = 2
    /\ Len(ms[p].result.created_custom_fields) = 2
    /\ total_created(ms[p].result) = 4

\* the run is finished, every get returned no item and no call raised
RanOnEmptyProject(run) ==
  /\ run.pc = "done"
  /\ \A i \in 1..Len(run.calls) :
       /\ run.calls[i].ok
       /\ run.calls[i].op = "get" => run.calls[i].arg = {}

\* C19 as stated: on a project without issue types, categories and custom
\* fields, with every create succeeding, setup_master_data creates exactly 7
\* categories and returns total_created = 9 and success = TRUE.
C19_EmptyProjectCreatesNine ==
  \A p \in Procs :
    RanOnEmptyProject(ms[p]) =>
      /\ Len(ms[p].result.created_categories) = 7
      /\ total_created(ms[p].result) = 9
      /\ success(ms[p].result)

\* C19, amended: on such a project setup_master_data creates exactly 2
\* issue types, 7 categories and 2 custom fields and returns
\* total_created = 11 and success = TRUE.
C19_EmptyProjectCreatesEleven ==
  \A p \in Procs :
    RanOnEmptyProject(ms[p]) =>
      /\ ms[p].result.created_issue_types = REQUIRED_ISSUE_TYPES
      /\ ms[p].result.created_categories = REQUIRED_CATEGORIES
      /\ Len(ms[p].result.created_categories) = 7
      /\ ms[p].result.created_custom_fields = <<FIELD_INPUT, FIELD_GOAL_OUTPUT>>
      /\ Len(CreateCalls(ms[p])) = 11
      /\ total_created(ms[p].result) = 11
      /\ success(ms[p].result)

\* a run on the empty project has finished: three gets that returned no
\* item, and a returned create call for each of the eleven required items
C19_Witness ==
  \E p \in Procs :
    /\ RanOnEmptyProject(ms[p])
    /\ Len(ms[p].calls) = 14
    /\ total_created(ms[p].result) = 11
    /\ \A k \in 1..Len(Phases) :
         CreatedInTracker(ms[p].calls, Phases[k]) = RequiredNames(Phases[k])

(***************************************************************************)
(* Properties of create_wbs (Spec)                                         *)
(***************************************************************************)

StepIndex(step) == CHOOSE k \in 1..Len(Steps) : Steps[k] = step

\* the steps a run that nothing stops goes through: ParseNewTasks only with
\* a new-task text, RegisterTasks only with a task to register
ExpectedSteps(run) ==
  SelectSeq(Steps, LAMBDA s :
    /\ s = "ParseNewTasks" => run.new_tasks_text # <<>>
    /\ s = "RegisterTasks" => run.tasks_to_register # <<>>)

\* the step in which create_wbs invokes a collaborator operation
OpStep(op) ==
  CASE op = "setup_master_data" -> "MasterDataSetup"
    [] op = "fetch_data" -> "FetchTemplate"
    [] op = "save_data" -> "PersistTemplate"
    [] op = "get_tasks" -> "DetectDuplicates"
    [] op = "create_tasks" -> "RegisterTasks"

\* C1: in every run of create_wbs the steps are entered in the fixed order
\* MasterDataSetup, ResolveService, (client creation), FetchTemplate, template
\* processing, PersistTemplate, ParseNewTasks (only when the new-task text is
\* not empty), MergeTasks, DetectDuplicates, RegisterTasks, Compile: a step
\* is entered only when every earlier step of the run has completed, and no
\* step is entered again once a later one has started.
C1_StepsInFixedOrder ==
  \A p \in Procs :
    LET run == ws[p]
        n == Len(run.entered)
    IN /\ \A i \in 1..(n - 1) :
            StepIndex(run.entered[i]) < StepIndex(run.entered[i + 1])
       /\ n <= Len(ExpectedSteps(run))
       /\ run.entered = SubSeq(ExpectedSteps(run), 1, n)
       /\ run.pc \notin {"idle", "returned"} => run.pc = run.entered[n]
       /\ run.pc = "idle" <=> n = 0

\* a run with a new-task text that went through every step and returned
C1_Witness ==
  \E p \in Procs :
    /\ ws[p].pc = "returned"
    /\ ws[p].entered = Steps
    /\ ws[p].result.success

\* C2: when a step other than MasterDataSetup raises, the run stops there:
\* no later step is entered and no later collaborator operation is invoked,
\* the result has success = FALSE and the exception's message as
\* error_message, and it holds nothing that a later step would have set.
C2_ExceptionStopsRun ==
  \A p \in Procs :
    LET run == ws[p]
        at == StepIndex(run.failed_in)
    IN run.failed_in # None =>
         /\ run.pc = "returned"
         /\ run.entered[Len(run.entered)] = run.failed_in
         /\ \A i \in 1..Len(run.calls) : StepIndex(OpStep(run.calls[i])) <= at
         /\ ~run.result.success
         /\ run.result.error_message = run.raised
         /\ run.result.registered_tasks = <<>>
         /\ at < StepIndex("DetectDuplicates") => run.result.skipped_tasks = <<>>
         /\ at <= StepIndex("PersistTemplate") => run.result.metadata_id = Nothing

\* create_tasks raised after it had created a task: the result keeps what the
\* earlier steps set and reports no registered task
C2_Witness ==
  \E p \in Procs :
    /\ ws[p].failed_in = "RegisterTasks"
    /\ ws[p].created # <<>>
    /\ ws[p].result.registered_tasks = <<>>
    /\ ~ws[p].result.success
    /\ ws[p].result.metadata_id # Nothing
    /\ ws[p].result.error_message = "create_tasks failed"

\* C3: a setup_master_data result with errors does not stop create_wbs: the
\* run enters ResolveService next, and a run fails only because a later step
\* raised.
C3_SetupErrorsDoNotHalt ==
  \A p \in Procs :
    LET run == ws[p]
    IN /\ (run.master_result # Nothing /\ ~success(TheOne(run.master_result))) =>
            /\ Len(run.entered) >= 2
            /\ run.entered[2] = "ResolveService"
       /\ (run.pc = "returned" /\ ~run.result.success) =>
            /\ run.failed_in # None
            /\ run.failed_in # "MasterDataSetup"

\* a run whose setup_master_data result carried errors reached Compile and
\* returned success = TRUE with registered tasks
C3_Witness ==
  \E p \in Procs :
    /\ ws[p].pc = "returned"
    /\ ws[p].master_result # Nothing
    /\ ~success(TheOne(ws[p].master_result))
    /\ "Compile" = ws[p].entered[Len(ws[p].entered)]
    /\ ws[p].result.success
    /\ ws[p].result.registered_tasks # <<>>

\* the lower-cased summaries get_tasks returned to the run
ExistingTitles(run) ==
  {Lower(TheOne(run.existing).value[i]) : i \in 1..Len(TheOne(run.existing).value)}

InSeq(x, s) == \E i \in 1..Len(s) : s[i] = x

\* C8: when get_tasks succeeds, duplicates holds exactly the candidates whose
\* lower-cased title is the lower-cased summary of an existing task and
\* toRegister holds the others, both in input order; the duplicates are
\* reported in skipped_tasks and are neither passed to create_tasks nor
\* created nor reported in registered_tasks.
C8_DuplicatesPartition ==
  \A p \in Procs :
    LET run == ws[p]
    IN (run.existing # Nothing /\ ~TheOne(run.existing).raised) =>
         /\ run.result.skipped_tasks =
              SelectSeq(run.merged_tasks,
                        LAMBDA t : Lower(t.title) \in ExistingTitles(run))
         /\ run.tasks_to_register =
              SelectSeq(run.merged_tasks,
                        LAMBDA t : Lower(t.title) \notin ExistingTitles(run))
         /\ run.passed # Nothing => TheOne(run.passed) = run.tasks_to_register
         /\ \A i \in 1..Len(run.result.skipped_tasks) :
              LET t == run.result.skipped_tasks[i]
              IN /\ ~InSeq(t, run.created)
                 /\ ~InSeq(t, run.result.registered_tasks)
                 /\ run.passed # Nothing => ~InSeq(t, TheOne(run.passed))

\* a run skipped a task whose title differs in case from the existing summary
\* and registered another one
C8_Witness ==
  \E p \in Procs :
    /\ ws[p].existing # Nothing
    /\ ~TheOne(ws[p].existing).raised
    /\ ws[p].result.skipped_tasks # <<>>
    /\ ~InSeq(ws[p].result.skipped_tasks[1].title, TheOne(ws[p].existing).value)
    /\ ws[p].result.registered_tasks # <<>>

\* C9: when get_tasks raises, every candidate is in toRegister, in input
\* order, and skipped_tasks is empty; the run does not fail in
\* DetectDuplicates, passes all candidates to create_tasks and, when nothing
\* else raises, reports all of them as registered.
C9_FetchFailureRegistersAll ==
  \A p \in Procs :
    LET run == ws[p]
    IN (run.existing # Nothing /\ TheOne(run.existing).raised) =>
         /\ run.tasks_to_register = run.merged_tasks
         /\ run.result.skipped_tasks = <<>>
         /\ run.failed_in # "DetectDuplicates"
         /\ run.merged_tasks # <<>> =>
              /\ InSeq("RegisterTasks", run.entered)
              /\ run.passed = Some(run.merged_tasks)
         /\ (run.pc = "returned" /\ run.failed_in = None) =>
              /\ run.result.success
              /\ run.result.registered_tasks = run.merged_tasks

\* get_tasks raised and the run registered every candidate, one of which has
\* the title of a task the project already held
C9_Witness ==
  \E p \in Procs :
    /\ ws[p].existing # Nothing
    /\ TheOne(ws[p].existing).raised
    /\ ws[p].pc = "returned"
    /\ ws[p].result.success
    /\ Len(ws[p].result.registered_tasks) >= 2
    /\ ws[p].result.registered_tasks = ws[p].merged_tasks
    /\ \E i \in 1..Len(tracker.tasks) :
         Lower(tracker.tasks[i]) = Lower(ws[p].merged_tasks[1].title)

\* C13: when duplicate detection leaves no task to register, create_tasks is
\* not called at all: the run goes from DetectDuplicates to Compile and
\* returns success = TRUE with an empty registered_tasks list.
C13_NothingToRegisterSkipsStep ==
  \A p \in Procs :
    LET run == ws[p]
    IN (run.existing # Nothing /\ run.tasks_to_register = <<>>) =>
         /\ ~InSeq("create_tasks", run.calls)
         /\ ~InSeq("RegisterTasks", run.entered)
         /\ run.passed = Nothing
         /\ run.created = <<>>
         /\ run.failed_in = None
         /\ run.entered[Len(run.entered)] = "Compile"
         /\ run.pc \in {"Compile", "returned"}
         /\ run.pc = "returned" =>
              /\ run.result.success
              /\ run.result.error_message = None
              /\ run.result.registered_tasks = <<>>

\* every candidate was a duplicate: the run returned success with the
\* candidates skipped and nothing registered
C13_Witness ==
  \E p \in Procs :
    /\ ws[p].pc = "returned"
    /\ ws[p].existing # Nothing
    /\ ws[p].merged_tasks # <<>>
    /\ ws[p].tasks_to_register = <<>>
    /\ ws[p].result.skipped_tasks = ws[p].merged_tasks
    /\ ws[p].result.success
    /\ ws[p].result.registered_tasks = <<>>
    /\ ~InSeq("create_tasks", ws[p].calls)

\* how a run may end: in Compile, with success = TRUE and no error_message,
\* or in the catch, with success = FALSE and the exception's message
EndsInCompileOrCatch(run) ==
  /\ run.pc \in {"idle", "returned"} \cup {Steps[k] : k \in 1..Len(Steps)}
  /\ run.pc = "returned" =>
       \/ /\ run.failed_in = None
          /\ run.entered[Len(run.entered)] = "Compile"
          /\ run.result.success
          /\ run.result.error_message = None
       \/ /\ run.failed_in # None
          /\ run.entered[Len(run.entered)] = run.failed_in
          /\ ~run.result.success
          /\ run.result.error_message # None
          /\ run.result.error_message = run.raised

\* a bound on the steps a run still takes: the steps of create_wbs after the
\* current one, and within the current one the awaits setup_master_data or
\* save_data still makes and the tasks create_tasks still creates
StepsLeft(p) ==
  LET run == ws[p]
      later == IF run.pc = "idle" THEN Len(Steps) + 1
               ELSE Cardinality({k \in 1..Len(Steps) :
                                   \E j \in 1..k : Steps[j] = run.pc})
      within ==
        CASE run.pc = "MasterDataSetup" ->
               IF ms[p].pc = "done" THEN 0
               ELSE 10 * (Len(Phases) + 1 - ms[p].phase)
                      + (IF ms[p].pc = "get" THEN 9 ELSE Len(ms[p].todo))
          [] run.pc = "PersistTemplate" ->
               CASE sv[p].pc = "idle" -> 5
                 [] sv[p].pc = "get_latest_metadata" -> 4
                 [] sv[p].pc = "upload_data" -> 3
                 [] sv[p].pc = "save_metadata" -> 2
                 [] OTHER -> 1
          [] run.pc = "RegisterTasks" -> Len(run.remaining)
          [] OTHER -> 0
  IN 100 * later + within

\* a run that has not returned has a next step: the steps that await nothing
\* (service resolution, parsing, merging) always complete, and the other
\* steps go on when the awaited call returns or raises
HasNextStep(p) ==
  \/ ws[p].pc \in {"ResolveService", "ParseNewTasks", "MergeTasks"}
  \/ /\ ws[p].pc = "PersistTemplate"
     /\ sv[p].caller = "create_wbs"
     /\ sv[p].pc \in {"get_latest_metadata", "upload_data", "save_metadata"}
  \/ ENABLED (\/ WbsCall(p) \/ WbsMasterStep(p) \/ WbsMasterDone(p)
              \/ WbsCreateClient(p) \/ WbsFetchReturns(p)
              \/ WbsProcessTemplate(p) \/ WbsPersistBegin(p)
              \/ WbsPersistDone(p) \/ WbsPersistRaised(p)
              \/ WbsDetectDuplicates(p) \/ WbsRegisterTask(p) \/ WbsCompile(p))

\* C14: create_wbs never raises to its caller and, when every collaborator
\* call returns or raises, always returns: a run ends either in Compile with
\* success = TRUE and error_message unset or in the top-level catch with
\* success = FALSE and error_message set, and in no other state; a run that
\* has not returned has a next step, and every step brings the return nearer.
C14_AlwaysReturnsFromCompileOrCatch ==
  /\ [](\A p \in Procs : EndsInCompileOrCatch(ws[p]))
  /\ [](\A p \in SeqProcs : ws[p].pc # "returned" => HasNextStep(p))
  /\ [][\A p \in SeqProcs : StepsLeft(p)' < StepsLeft(p)]_vars

\* a run in which save_data raised returned the failure to its caller
C14_Witness ==
  \E p \in Procs :
    /\ ws[p].pc = "returned"
    /\ ws[p].failed_in = "PersistTemplate"
    /\ ~ws[p].result.success
    /\ ws[p].result.error_message = ws[p].raised
    /\ ws[p].result.error_message # None

\* the collaborator operations create_wbs invokes, in the order of its code
Operations ==
  <<"setup_master_data", "fetch_data", "save_data", "get_tasks", "create_tasks">>

\* C15: create_wbs performs no retry: within one run each collaborator
\* operation (setup_master_data, fetch_data, save_data, get_tasks,
\* create_tasks) is invoked at most once, in the order of the steps, and
\* after an operation failed the run invokes nothing any more.
C15_NoRetry ==
  /\ [](\A p \in Procs :
         LET run == ws[p]
         IN /\ \A i \in 1..Len(run.calls) : InSeq(run.calls[i], Operations)
            /\ \A i, j \in 1..Len(run.calls) :
                 i < j => StepIndex(OpStep(run.calls[i]))
                            < StepIndex(OpStep(run.calls[j]))
            /\ \A k \in 1..Len(Operations) :
                 Cardinality({i \in 1..Len(run.calls) :
                                run.calls[i] = Operations[k]}) <= 1)
  /\ [][\A p \in Procs :
          (ws[p].failed_in # None \/ ws[p].pc = "returned")
             => ws'[p].calls = ws[p].calls]_vars

\* a run invoked each of the five operations once, the last of which failed
C15_Witness ==
  \E p \in Procs :
    /\ ws[p].pc = "returned"
    /\ ws[p].failed_in = "RegisterTasks"
    /\ ws[p].calls = Operations

\* C18 as stated: once setup_master_data has returned to create_wbs,
\* result.master_data_created is the total_created of the result it
\* returned, also when that result carries errors.
C18_MasterDataCreatedCarried ==
  \A p \in Procs :
    LET run == ws[p]
    IN run.master_result # Nothing =>
         run.result.master_data_created = total_created(TheOne(run.master_result))

(***************************************************************************)
(* Properties of overlapping create_wbs runs (SpecOverlapping)             *)
(***************************************************************************)

\* the merged list computed from the run's own inputs and its own fetch reply
OwnMergedTasks(run) ==
  merge_tasks(process_template_data(TheOne(run.template_data),
                                    parse_service_type(run.template_url).value).value,
              IF run.new_tasks_text # <<>>
              THEN parse_tasks_from_text(run.new_tasks_text).value
              ELSE <<>>).value

\* the result a run must hold, computed from its inputs and from the replies
\* to its own calls so far (setup_master_data, fetch_data, get_tasks,
\* create_tasks); metadata_id is left as the run holds it. While the run is
\* under way the merged list is the one it holds; once it returned, the list
\* is computed again from the inputs.
OwnResult(run) ==
  LET merged == IF run.pc = "returned" THEN OwnMergedTasks(run)
                ELSE run.merged_tasks
      parts == IF run.existing = Nothing
               THEN [to_register |-> <<>>, duplicates |-> <<>>]
               ELSE check_duplicates(merged, TheOne(run.existing))
  IN [success |-> run.pc = "returned" /\ run.raised = None,
      error_message |-> run.raised,
      master_data_created |->
        IF run.master_result = Nothing THEN 0
        ELSE master_data_created(TheOne(run.master_result)),
      skipped_tasks |-> parts.duplicates,
      registered_tasks |->
        IF run.failed_in # "RegisterTasks" /\ run.created = parts.to_register
        THEN parts.to_register ELSE <<>>,
      metadata_id |-> run.result.metadata_id]

\* the run's save_data call returned
Persisted(run) ==
  /\ \E i \in 1..Len(run.calls) : run.calls[i] = "save_data"
  /\ run.failed_in # "PersistTemplate"
  /\ run.pc # "PersistTemplate"

\* C21: two create_wbs runs that overlap on one service share no state of the
\* service: at every point of a run, and when it has returned, its result is
\* the one computed from its own inputs and the replies to its own
\* collaborator calls; its metadata_id is the id of a record stored for its own
\* template_url, and no other run holds that id; a run whose save_data call
\* has not returned holds no metadata_id.
C21_RunsShareNoState ==
  \A p \in Procs :
    ws[p].pc # "idle" =>
      LET run == ws[p]
      IN /\ run.result = OwnResult(run)
         /\ IF Persisted(run)
            THEN /\ run.result.metadata_id # Nothing
                 /\ LET id == TheOne(run.result.metadata_id)
                    IN /\ id \in 1..Len(firestore)
                       /\ firestore[id].file_url = HttpUrlStr(run.template_url)
                       /\ \A q \in Procs \ {p} :
                            ws[q].result.metadata_id # Some(id)
            ELSE run.result.metadata_id = Nothing

\* both runs returned after they overlapped: each looked for the latest
\* record of the template before the other had stored its own, so that the
\* two records carry one version, which no order of two runs one after the
\* other produces; the runs had different inputs and hold different results
C21_Witness ==
  /\ ws["p1"].pc = "returned" /\ ws["p2"].pc = "returned"
  /\ ws["p1"].new_tasks_text = TEXT_TWO_TASKS /\ ws["p2"].new_tasks_text = NoText
  /\ ws["p1"].result.success /\ ws["p2"].result.success
  /\ Len(ws["p1"].result.registered_tasks) = 2
  /\ ws["p1"].result.skipped_tasks = <<>>
  /\ ws["p2"].result.registered_tasks = <<>>
  /\ ws["p1"].result.master_data_created = 11
  /\ ws["p2"].result.master_data_created = 11
  /\ ws["p1"].result.metadata_id = Some(1)
  /\ ws["p2"].result.metadata_id = Some(2)
  /\ Len(firestore) = 2
  /\ firestore[1].file_url = firestore[2].file_url
  /\ firestore[1].version = firestore[2].version

(***************************************************************************)
(* Properties of detect_category (SpecDetect)                              *)
(***************************************************************************)

\* the outcomes of the calls made so far
DetectOutcomes ==
  {o \in {dt.first_out, dt.second_out} : o # Nothing}

\* C22: detect_category is total and deterministic: every call returns, and
\* returns one of the 7 categories, whatever the title and with or without a
\* description; two calls on tasks of the same title and description return
\* the same category.
C22_TotalAndDeterministic ==
  /\ \A o \in DetectOutcomes :
       ~TheOne(o).raised /\ TheOne(o).value \in Categories
  /\ (/\ dt.first_out # Nothing /\ dt.second_out # Nothing
      /\ TheOne(dt.first).title = TheOne(dt.second).title
      /\ TheOne(dt.first).description = TheOne(dt.second).description)
       => TheOne(dt.first_out).value = TheOne(dt.second_out).value

\* two tasks of the same title and description, one of them assigned to "QA",
\* were both classified, as Release
C22_Witness ==
  /\ dt.first_out # Nothing /\ dt.second_out # Nothing
  /\ TheOne(dt.first).title = TheOne(dt.second).title
  /\ TheOne(dt.first).description = TheOne(dt.second).description
  /\ TheOne(dt.first).description # NoText
  /\ TheOne(dt.first).assignee # TheOne(dt.second).assignee
  /\ TheOne(dt.first_out) = Returned("RELEASE")
  /\ TheOne(dt.second_out) = Returned("RELEASE")

\* the sum of the lengths of the entries of a keyword list at the given places
RECURSIVE SumOfLengths(_, _)
SumOfLengths(keywords, places) ==
  IF places = {} THEN 0
  ELSE LET i == CHOOSE j \in places : TRUE
       IN Len(keywords[i]) + SumOfLengths(keywords, places \ {i})

\* the score the claim gives a category: the lengths of its keywords that occur
\* in the lower-cased title, followed by a space and the lower-cased
\* description when the task has one
KeywordScore(task, category) ==
  LET text == Lower(task.title)
                \o (IF task.description = NoText THEN <<>>
                    ELSE <<" ">> \o Lower(task.description))
      keywords == category_keywords[category]
  IN SumOfLengths(keywords,
                  {i \in 1..Len(keywords) : IsSubstr(Lower(keywords[i]), text)})

\* the category the claim names for a task
HighestScoring(task) ==
  LET score == [c \in Categories |-> KeywordScore(task, c)]
  IN IF \A c \in Categories : score[c] = 0 THEN "REQUIREMENTS"
     ELSE CategoryEnum[CHOOSE i \in 1..Len(CategoryEnum) :
            /\ \A j \in 1..Len(CategoryEnum) :
                 score[CategoryEnum[j]] <= score[CategoryEnum[i]]
            /\ \A j \in 1..(i - 1) :
                 score[CategoryEnum[j]] < score[CategoryEnum[i]]]

\* C23: detect_category returns the category whose keywords found in the
\* lower-cased title and description have the greatest summed length, the one
\* declared first among several of that score, and Requirements when every
\* category scores 0.
C23_HighestScoreFirstDeclaredWins ==
  /\ dt.first_out # Nothing =>
       TheOne(dt.first_out) = Returned(HighestScoring(TheOne(dt.first)))
  /\ dt.second_out # Nothing =>
       TheOne(dt.second_out) = Returned(HighestScoring(TheOne(dt.second)))

\* the first task scores 2 for Preparation and 2 for Requirements, which it
\* names first, and was classified as Preparation; the second scores 4 for
\* Implementation (a keyword listed twice) and 3 for Testing and was
\* classified as Implementation
C23_Witness ==
  /\ dt.first_out = Some(Returned("PREPARATION"))
  /\ KeywordScore(TheOne(dt.first), "PREPARATION") = 2
  /\ KeywordScore(TheOne(dt.first), "REQUIREMENTS") = 2
  /\ TheOne(dt.first).title = <<"u8981", "u4EF6", "u6E96", "u5099">>
  /\ dt.second_out = Some(Returned("IMPLEMENTATION"))
  /\ KeywordScore(TheOne(dt.second), "IMPLEMENTATION") = 4
  /\ KeywordScore(TheOne(dt.second), "TESTING") = 3

(***************************************************************************)
(* Properties of parse_tasks_from_text (SpecParse)                         *)
(***************************************************************************)

\* the lines of the text that are bullet lines: after trimming, "-" or "*",
\* white space, and something more
BulletLines(lines) ==
  {i \in 1..Len(lines) : bullet_match(Strip(lines[i])) # Nothing}

\* the segments of a bullet line, split at "|", what follows the bullet mark
BulletSegments(line) == Split(TheOne(bullet_match(Strip(line))), "|")

\* the first segment of a bullet line, trimmed
TitleSegment(line) == Strip(BulletSegments(line)[1])

\* the k-th bullet line
NthBullet(lines, k) ==
  CHOOSE i \in BulletLines(lines) :
    Cardinality({j \in BulletLines(lines) : j < i}) = k - 1

\* the lines after bullet line i up to the next bullet line, trimmed, the
\* blank ones left out, joined by newlines
DescriptionAfter(lines, i) ==
  LET later == {j \in BulletLines(lines) : j > i}
      next == IF later = {} THEN Len(lines) + 1
              ELSE CHOOSE j \in later : \A k \in later : j <= k
      between == [j \in 1..(next - i - 1) |-> Strip(lines[i + j])]
  IN Join(SelectSeq(between, LAMBDA line : line # <<>>), "\n")

\* the values a bullet line gives under the keys: those of its "key: value"
\* segments, after the first segment, whose key is one of the keys
KeyTexts(line, keys) ==
  LET segments == BulletSegments(line)
      given == SelectSeq([j \in 1..(Len(segments) - 1) |->
                            kv_match(Strip(segments[j + 1]))],
                         LAMBDA kv : kv # Nothing /\ TheOne(kv).key \in keys)
  IN [j \in 1..Len(given) |-> TheOne(given[j]).value]

\* the text holds a surrogate code point
HasSurrogate(text) == \E j \in 1..Len(text) : ord(text[j]) \in Surrogates

\* the title of the task of bullet line i holds a surrogate
SurrogateInTitle(lines, i) == HasSurrogate(TitleSegment(lines[i]))

\* C24 as stated: when every bullet line of the text has a non-empty title
\* segment, parse_tasks_from_text returns one task per bullet line, in the
\* order of the lines, each with the title of its line and, as description,
\* the non-blank lines up to the next bullet line joined by newlines (no
\* description without such lines); when a bullet line has an empty title
\* segment the call raises and returns no list.
C24_OneTaskPerBulletOrFailure ==
  pr.parsed # Nothing =>
    LET lines == Split(pr.text, "\n")
        out == TheOne(pr.parsed)
    IN IF \A i \in BulletLines(lines) : TitleSegment(lines[i]) # <<>>
       THEN /\ ~out.raised
            /\ Len(out.value) = Cardinality(BulletLines(lines))
            /\ \A k \in 1..Len(out.value) :
                 /\ out.value[k].title = TitleSegment(lines[NthBullet(lines, k)])
                 /\ out.value[k].description =
                      DescriptionAfter(lines, NthBullet(lines, k))
       ELSE out.raised

\* C24, amended: when every bullet line of the text has a non-empty title
\* segment without a surrogate code point, parse_tasks_from_text returns one
\* task per bullet line, in the order of the lines, each with the title of
\* its line and, as description, the non-blank lines up to the next bullet
\* line joined by newlines (a surrogate in a description, a priority or an
\* assignee is kept); when a bullet line has an empty title segment, or a
\* title that holds a surrogate, the call raises and returns no list.
C24_OneTaskPerBulletOfWellFormedText ==
  pr.parsed # Nothing =>
    LET lines == Split(pr.text, "\n")
        out == TheOne(pr.parsed)
    IN IF \A i \in BulletLines(lines) :
            TitleSegment(lines[i]) # <<>> /\ ~SurrogateInTitle(lines, i)
       THEN /\ ~out.raised
            /\ Len(out.value) = Cardinality(BulletLines(lines))
            /\ \A k \in 1..Len(out.value) :
                 /\ out.value[k].title = TitleSegment(lines[NthBullet(lines, k)])
                 /\ out.value[k].description =
                      DescriptionAfter(lines, NthBullet(lines, k))
       ELSE out.raised

\* the text "- A\n  note \n- G|assignee:\udfff|category:\ud800" was parsed
\* into the task A with the description "note" and the task G without a
\* description, whose assignee is the surrogate
C24_Witness ==
  /\ pr.parsed # Nothing
  /\ Len(Split(pr.text, "\n")) = 3
  /\ HasSurrogate(pr.text)
  /\ ~TheOne(pr.parsed).raised
  /\ Len(TheOne(pr.parsed).value) = 2
  /\ TheOne(pr.parsed).value[1].title = <<"A">>
  /\ TheOne(pr.parsed).value[1].description = <<"n", "o", "t", "e">>
  /\ TheOne(pr.parsed).value[2].title = <<"G">>
  /\ TheOne(pr.parsed).value[2].assignee = <<"uDFFF">>
  /\ TheOne(pr.parsed).value[2].description = NoText

\* the category texts a bullet line gives: the values of its "key: value"
\* segments, after the first segment, whose key is a category key
CategoryTexts(line) == KeyTexts(line, CATEGORY_KEYS)

\* C25: a category text that is no category label does not make
\* parse_tasks_from_text fail (it fails exactly for an empty title segment and
\* for a surrogate in a title, whatever the category texts are): the task of
\* a bullet line that gives a category text has the category whose label is
\* exactly that text, or Requirements when the text is no label; the task of
\* a line that gives none has no category.
C25_UnknownCategoryFallsBack ==
  pr.parsed # Nothing =>
    LET lines == Split(pr.text, "\n")
        out == TheOne(pr.parsed)
    IN /\ out.raised <=>
            \E i \in BulletLines(lines) :
              TitleSegment(lines[i]) = <<>> \/ SurrogateInTitle(lines, i)
       /\ ~out.raised =>
            \A k \in 1..Len(out.value) :
              LET texts == CategoryTexts(lines[NthBullet(lines, k)])
                  text == texts[Len(texts)]
              IN out.value[k].category =
                   IF texts = <<>> THEN None
                   ELSE IF \E c \in Categories : CategoryValue[c] = text
                        THEN CHOOSE c \in Categories : CategoryValue[c] = text
                        ELSE "REQUIREMENTS"

\* a text with the lines "- D | category: impl" and "- C | category: 実装" was
\* parsed into a task D of category Requirements and a task C of category
\* Implementation
C25_Witness ==
  /\ pr.parsed # Nothing
  /\ ~TheOne(pr.parsed).raised
  /\ Len(TheOne(pr.parsed).value) = 2
  /\ TheOne(pr.parsed).value[1].title = <<"D">>
  /\ TheOne(pr.parsed).value[1].category = "REQUIREMENTS"
  /\ CategoryTexts(Split(pr.text, "\n")[NthBullet(Split(pr.text, "\n"), 1)])
       = <<<<"i", "m", "p", "l">>>>
  /\ TheOne(pr.parsed).value[2].title = <<"C">>
  /\ TheOne(pr.parsed).value[2].category = "IMPLEMENTATION"

\* C26: the two-bullet scenario text, written with the words of the spec or
\* with the label 実装 of the code, is parsed into 2 tasks, and merging them as
\* new tasks with an empty template list returns them in the order
\* [Requirements task, Build feature], the first in category Requirements and
\* the second in category Implementation.
C26_ScenarioMergedInCategoryOrder ==
  pr.text \in {TEXT_SCENARIO_A, TEXT_SCENARIO_A_LABEL} =>
    /\ pr.parsed # Nothing =>
         ~TheOne(pr.parsed).raised /\ Len(TheOne(pr.parsed).value) = 2
    /\ pr.merged # Nothing =>
         /\ ~TheOne(pr.merged).raised
         /\ Len(TheOne(pr.merged).value) = 2
         /\ TheOne(pr.merged).value[1].title = TheOne(pr.parsed).value[1].title
         /\ TheOne(pr.merged).value[1].category = "REQUIREMENTS"
         /\ TheOne(pr.merged).value[2].title = TheOne(pr.parsed).value[2].title
         /\ TheOne(pr.merged).value[2].category = "IMPLEMENTATION"

(***************************************************************************)
(* Properties of parse_service_type (SpecUrl)                              *)
(***************************************************************************)

\* the scheme of a URL: what stands before its first colon, in lower case
SchemeOf(url) ==
  LET colon == IndexOf(<<":">>, url)
  IN IF colon > 1 THEN Lower(SubSeq(url, 1, colon - 1)) ELSE <<>>

\* the host of a URL: what follows "//" after the scheme, up to the first "/",
\* "?" or "#"
HostOf(url) ==
  LET colon == IndexOf(<<":">>, url)
      rest == IF colon > 1 THEN SubSeq(url, colon + 1, Len(url)) ELSE url
      tail == SubSeq(rest, 3, Len(rest))
      ends == {i \in 1..Len(tail) : tail[i] \in {"/", "?", "#"}}
  IN IF ~HasPrefix(rest, <<"/", "/">>) THEN <<>>
     ELSE IF ends = {} THEN tail
     ELSE SubSeq(tail, 1, (CHOOSE i \in ends : \A j \in ends : i <= j) - 1)

HttpSchemes == {<<"h", "t", "t", "p">>, <<"h", "t", "t", "p", "s">>}

\* a URL with an http or https scheme and a host
WellFormedHttpUrl(url) == SchemeOf(url) \in HttpSchemes /\ HostOf(url) # <<>>

\* C27: parse_service_type raises, and returns no service type, for the empty
\* URL, for a URL without scheme or without host and for a URL whose scheme is
\* neither http nor https; for a well-formed http(s) URL that matches neither
\* domain pattern it raises the unsupported-URL error, whose message contains
\* the URL.
C27_InvalidAndUnsupportedUrlsRaise ==
  ur.out # Nothing =>
    LET url == ur.url
        out == TheOne(ur.out)
    IN /\ ~WellFormedHttpUrl(url) => out.raised
       /\ (/\ WellFormedHttpUrl(url)
           /\ ~backlog_pattern_matches(url)
           /\ ~notion_pattern_matches(url))
            => /\ out.raised
               /\ out.value = "ValueError: unsupported URL"
               /\ IsSubstr(url, out.message)

\* the call for "https://example.com/view/P-1" raised the unsupported-URL
\* error, and its message holds that URL
C27_Witness ==
  /\ ur.url = <<"h", "t", "t", "p", "s", ":", "/", "/", "e", "x", "a", "m", "p", "l",
        "e", ".", "c", "o", "m", "/", "v", "i", "e", "w", "/", "P", "-", "1">>
  /\ ur.out # Nothing
  /\ TheOne(ur.out).raised
  /\ TheOne(ur.out).value = "ValueError: unsupported URL"
  /\ IsSubstr(ur.url, TheOne(ur.out).message)
  /\ Len(TheOne(ur.out).message) > Len(ur.url)

\* host is a subdomain of domain
IsSubdomainOf(host, domain) ==
  /\ Len(host) > Len(domain) + 1
  /\ SubSeq(host, Len(host) - Len(domain), Len(host)) = <<".">> \o domain

\* C28: parse_service_type returns BACKLOG exactly for the well-formed http(s)
\* URLs whose host is a subdomain of backlog.jp or backlog.com, and NOTION
\* exactly for those whose host is notion.so or www.notion.so (and no
\* subdomain of the former).
C28_DecidesByDomain ==
  ur.out # Nothing =>
    LET url == ur.url
        out == TheOne(ur.out)
        tracker_host ==
          \/ IsSubdomainOf(HostOf(url), <<"b", "a", "c", "k", "l", "o", "g", ".", "j", "p">>)
          \/ IsSubdomainOf(HostOf(url), <<"b", "a", "c", "k", "l", "o", "g", ".", "c", "o", "m">>)
        notes_host ==
          HostOf(url) \in {<<"n", "o", "t", "i", "o", "n", ".", "s", "o">>,
                           <<"w", "w", "w", ".", "n", "o", "t", "i", "o", "n", ".", "s", "o">>}
    IN /\ out = Returned("BACKLOG") <=> (WellFormedHttpUrl(url) /\ tracker_host)
       /\ out = Returned("NOTION")
            <=> (WellFormedHttpUrl(url) /\ notes_host /\ ~tracker_host)

(***************************************************************************)
(* Properties of wbs_create (SpecHttp)                                     *)
(***************************************************************************)

\* the member of a parsed object, nothing when the object has none of the name
Member(object, name) ==
  LET at == {i \in 1..Len(object.dict) : object.dict[i].key = PyStr(name)}
  IN IF at = {} THEN Nothing ELSE Some(object.dict[CHOOSE i \in at : TRUE].val)

\* the member is a string of Unicode text
IsString(member) ==
  /\ member # Nothing
  /\ PyType(TheOne(member)) = "str"
  /\ ~HasSurrogate(TheOne(member).str)

\* the request the interface asks for: JSON content whose body is the text
\* of an object with a non-empty string template_url, a string project_key
\* of 1 to 50 characters and, if given, a string or null new_tasks_text
AcceptableBody(request) ==
  /\ request.is_json
  /\ request.body # <<>>
  /\ LET parsed == loads_bytes(request.body)
         template_url == Member(parsed.value, <<"t", "e", "m", "p", "l", "a", "t", "e", "_", "u", "r", "l">>)
         project_key == Member(parsed.value, <<"p", "r", "o", "j", "e", "c", "t", "_", "k", "e", "y">>)
         new_tasks_text == Member(parsed.value, <<"n", "e", "w", "_", "t", "a", "s", "k", "s", "_", "t", "e", "x", "t">>)
     IN /\ ~parsed.raised
        /\ PyType(parsed.value) = "dict"
        /\ IsString(template_url)
        /\ TheOne(template_url).str # NoText
        /\ IsString(project_key)
        /\ Len(TheOne(project_key).str) \in 1..50
        /\ new_tasks_text # Nothing =>
             PyType(TheOne(new_tasks_text)) \in {"str", "none"}

\* the call of the thread was answered with this status and success flag
Answered(p, status, flag) ==
  /\ ht.call[p].outcome # Nothing
  /\ ~TheOne(ht.call[p].outcome).raised
  /\ TheOne(ht.call[p].outcome).value.status = status
  /\ TheOne(ht.call[p].outcome).value.body # Nothing
  /\ TheOne(TheOne(ht.call[p].outcome).value.body).success = flag

\* C29: OPTIONS is answered 204 with the CORS headers and an empty body; a
\* method other than POST and OPTIONS is answered 405 with success = false; a
\* POST whose body is missing, is no JSON or does not satisfy the schema is
\* answered 400 with success = false; none of these calls create_wbs.  A POST
\* with an acceptable body calls create_wbs exactly once, and is answered 200
\* with success = true when create_wbs returned a successful result.
C29_StatusByMethodAndBody ==
  \A p \in Procs :
    LET call == ht.call[p]
    IN call.request # Nothing =>
         LET request == TheOne(call.request)
             acceptable == AcceptableBody(request)
         IN /\ request.method = "OPTIONS" =>
                 /\ call.outcome # Nothing
                 /\ ~TheOne(call.outcome).raised
                 /\ TheOne(call.outcome).value.status = 204
                 /\ TheOne(call.outcome).value.body = Nothing
                 /\ {"Access-Control-Allow-Origin", "Access-Control-Allow-Methods",
                     "Access-Control-Allow-Headers"}
                      \subseteq TheOne(call.outcome).value.headers
                 /\ call.pipeline_calls = 0
            /\ request.method \notin {"POST", "OPTIONS"} =>
                 Answered(p, 405, FALSE) /\ call.pipeline_calls = 0
            /\ (request.method = "POST" /\ ~acceptable) =>
                 Answered(p, 400, FALSE) /\ call.pipeline_calls = 0
            /\ (request.method = "POST" /\ acceptable) =>
                 /\ call.pipeline_calls = 1
                 /\ call.pc = "pipeline" => ws[p].pc # "idle"
                 /\ call.pc = "done" =>
                      /\ call.result # Nothing
                      /\ TheOne(call.result).success => Answered(p, 200, TRUE)

\* no task of the result holds a surrogate code point, so that the response
\* made of the result can be written as JSON
Writable(result) ==
  \A i \in 1..Len(result.registered_tasks \o result.skipped_tasks) :
    LET task == (result.registered_tasks \o result.skipped_tasks)[i]
    IN ~HasSurrogate(task.title \o task.description \o task.priority \o task.assignee)

\* after a call: it raised exactly when _initialize_services raised in it;
\* it answered with success = false when create_wbs returned a failed
\* result (with status 200, and with status 500 when the response could not
\* be written), and with status 500 and success = false when an exception
\* reached the except clause of the entry point
EscapesAndAnswers ==
  \A p \in Procs :
    ht.call[p].outcome # Nothing =>
      /\ TheOne(ht.call[p].outcome).raised <=> ht.call[p].init_raised
      /\ (ht.call[p].result # Nothing /\ ~TheOne(ht.call[p].result).success)
           => Answered(p, IF Writable(TheOne(ht.call[p].result)) THEN 200 ELSE 500,
                       FALSE)
      /\ (ht.call[p].result # Nothing /\ ~Writable(TheOne(ht.call[p].result)))
           => Answered(p, 500, FALSE)
      /\ ht.call[p].run_raised => Answered(p, 500, FALSE)

\* the call of the thread ends in this step
Ends(p) ==
  /\ ht'.call[p].pc = "done"
  /\ ht.call[p].pc = "pipeline" \/ ht'.served # ht.served

\* C30: wbs_create raises only when _initialize_services raised in that call;
\* once the services are set no later call raises.  A call that does not
\* raise returns a response: with success = false when create_wbs failed, and
\* with status 500 and success = false when an exception reached the except
\* clause of the entry point.
C30_OnlyInitializationErrorsEscape ==
  /\ []EscapesAndAnswers
  /\ [][ht.services =>
          \A p \in Procs :
            (Ends(p) /\ ht'.call[p].request # ht.call[p].request)
              => ~TheOne(ht'.call[p].outcome).raised]_vars
  /\ [][\A p \in Procs :
          (ht.call[p].pc = "pipeline" /\ ht'.call[p].pc = "done")
            => ~TheOne(ht'.call[p].outcome).raised]_vars

\* with the services set, asyncio.run raised for a valid POST, which was
\* answered 500 with success = false, and on the other thread a collaborator
\* raised inside create_wbs, which was answered 200 with success = false
C30_Witness ==
  \E p \in Procs, q \in Procs :
    /\ ht.services
    /\ ht.call[p].pc = "done"
    /\ TheOne(ht.call[p].request).method = "POST"
    /\ AcceptableBody(TheOne(ht.call[p].request))
    /\ ht.call[p].run_raised
    /\ ht.call[p].pipeline_calls = 0
    /\ Answered(p, 500, FALSE)
    /\ ht.call[q].pc = "done"
    /\ ht.call[q].result # Nothing
    /\ TheOne(ht.call[q].result).error_message # None
    /\ Answered(q, 200, FALSE)

(***************************************************************************)
(* Properties of merge_tasks on Task objects (SpecMergeObjects)            *)
(***************************************************************************)

Elems(seq) == {seq[i] : i \in 1..Len(seq)}

\* the object differs from the task at most in its category
SameButCategory(object, task) ==
  /\ object.title = task.title
  /\ object.description = task.description
  /\ object.priority = task.priority
  /\ object.assignee = task.assignee

\* C31: merge_tasks mutates no Task object: after the call, returned or
\* raised, every object that existed before it has the field values it had (a
\* new task without category is still without), and every new task without
\* category is represented in the returned list by an object made in the call,
\* which has a category and is otherwise equal to the task, never by the task
\* object itself.
C31_RecategorizingCopies ==
  mh.out # Nothing =>
    /\ \A id \in 1..Len(mh.before) : mh.heap[id] = mh.before[id]
    /\ ~TheOne(mh.out).raised =>
         LET out == TheOne(mh.out).value
             unset == {id \in Elems(mh.new_ids) : mh.before[id].category = None}
         IN /\ \A id \in unset : id \notin Elems(out) \ Elems(mh.template_ids)
            /\ \A o \in Elems(out) :
                 o > Len(mh.before) =>
                   /\ mh.heap[o].category # None
                   /\ \E id \in unset : SameButCategory(mh.heap[o], mh.before[id])
            /\ Cardinality({o \in Elems(out) : o > Len(mh.before)})
                 = Cardinality({i \in 1..Len(mh.new_ids) : mh.new_ids[i] \in unset})

\* the call returned for two new tasks without category: the list holds two
\* objects made in the call, and both arguments are still without category
C31_Witness ==
  /\ mh.out # Nothing
  /\ ~TheOne(mh.out).raised
  /\ Len(mh.before) = 2
  /\ mh.new_ids = <<1, 2>>
  /\ mh.template_ids = <<>>
  /\ mh.before[1].category = None /\ mh.before[2].category = None
  /\ mh.before[1] # mh.before[2]
  /\ mh.heap[1].category = None /\ mh.heap[2].category = None
  /\ Len(mh.heap) = 4
  /\ Elems(TheOne(mh.out).value) = {3, 4}

(***************************************************************************)
(* Properties of get_data_by_version (SpecStoreRead)                       *)
(***************************************************************************)

\* the save_data calls that had returned with this version for this file_url
\* when get_data_by_version was called
ReturnedSaves(file_url, version) ==
  {i \in 1..rd.saves :
     /\ saveLog[i].metadata # Nothing
     /\ saveLog[i].file_url = file_url
     /\ TheOne(saveLog[i].metadata).version = version}

\* C32: get_data_by_version(file_url, v) called after a save_data(file_url,
\* data, format) that returned version v returns the data of that call (of the
\* last such call), decoded from JSON for format json and a str otherwise;
\* called for a file_url and version of which the collection holds no record,
\* it returns None and downloads nothing.
C32_ReadsBackWhatWasSaved ==
  rd.out # Nothing =>
    LET saves == ReturnedSaves(rd.file_url, rd.version)
        last == CHOOSE i \in saves : \A j \in saves : j <= i
        out == TheOne(rd.out)
        recorded == \E i \in 1..rd.docs :
                      /\ firestore[i].file_url = rd.file_url
                      /\ firestore[i].version = rd.version
    IN IF saves = {}
       THEN ~recorded => (out = Returned(Nothing) /\ rd.downloads = 0)
       ELSE /\ ~out.raised
            /\ out.value # Nothing
            /\ saveLog[last].format # "json" => is_str(TheOne(out.value))
            /\ py_equal(TheOne(out.value), TheOne(saveLog[last].data))

(***************************************************************************)
(* Properties of _call_mcp (SpecRetry)                                     *)
(***************************************************************************)

\* in every state: a call makes at most 3 attempts; every attempt but the last
\* one made has failed; the waits so far are 1 s after the first failure and
\* 2 s after the second, none after the third; a call that returned did so in
\* the attempt after its last failure; a call that raised had made 3 attempts,
\* all failed, and raised what the third attempt raised.
RetryStates ==
  /\ rt.attempts <= 3
  /\ Len(rt.failures) \in {rt.attempts, rt.attempts - 1}
  /\ rt.waits = [i \in 1..(IF Len(rt.failures) < 2 THEN Len(rt.failures)
                           ELSE 2) |-> IF i = 1 THEN 1 ELSE 2]
  /\ rt.pc = "returned" =>
       /\ rt.attempts = Len(rt.failures) + 1
       /\ rt.outcome = Some(Returned("{}"))
  /\ rt.pc = "raised" =>
       /\ rt.attempts = 3
       /\ Len(rt.failures) = 3
       /\ rt.outcome = Some(Raised(rt.failures[3]))
  /\ rt.pc \in {"attempt", "sleep"} => rt.outcome = Nothing

\* C33: one _call_mcp call makes at most max_retries = 3 attempts, returns on
\* the first attempt that succeeds, waits 1 s and then 2 s after the failed
\* attempts that are not the last, and after the third failed attempt raises
\* that failure; once it has returned or raised it neither attempts nor waits
\* again.
C33_AtMostThreeAttemptsWithBackoff ==
  /\ []RetryStates
  /\ [][rt.pc \in {"returned", "raised"} => rt' = rt]_vars

\* three attempts failed: the call waited 1 s and 2 s and raised the third
\* failure, which differs from the first two
C33_Witness ==
  /\ rt.pc = "raised"
  /\ rt.attempts = 3
  /\ rt.waits = <<1, 2>>
  /\ rt.failures = <<"timeout", "timeout", "MCP connection failed">>
  /\ rt.outcome = Some(Raised("MCP connection failed"))

(***************************************************************************)
(* Properties of failed save_data calls (SpecStore)                        *)
(***************************************************************************)

\* the save_data calls in which a collaborator raised
FailedSaves ==
  {i \in 1..Len(saveLog) :
     saveLog[i].error \in {"get_latest_metadata failed", "upload_data failed",
                           "save_metadata failed"}}

\* j is the first call after call i that returned for the file_url of call i
NextReturnedSave(i, j) ==
  /\ i < j
  /\ saveLog[j].metadata # Nothing
  /\ saveLog[j].file_url = saveLog[i].file_url
  /\ \A k \in (i + 1)..(j - 1) :
       ~(saveLog[k].metadata # Nothing /\ saveLog[k].file_url = saveLog[i].file_url)

\* the version a call would give its record on these documents
VersionOn(docs, file_url) ==
  LET versions == {docs[k].version : k \in docs_for(docs, file_url)}
  IN IF versions = {} THEN 1
     ELSE 1 + CHOOSE v \in versions : \A w \in versions : w <= v

SameBlob(a, b) == a.content_type = b.content_type /\ a.text = b.text

\* C34: a save_data call in which the lookup, the upload or the metadata write
\* raised leaves no record, and the next call that returns for the same
\* file_url gets the version and the storage path the failed call used or
\* would have used; when that call has returned, the path holds its data.
C34_FailedSaveConsumesNoVersion ==
  /\ \A i \in FailedSaves :
       /\ saveLog[i].docs = (IF i = 1 THEN 0 ELSE saveLog[i - 1].docs)
       /\ \A j \in 1..Len(saveLog) :
            NextReturnedSave(i, j) =>
              LET metadata == TheOne(saveLog[j].metadata)
              IN /\ metadata.version
                      = VersionOn(SubSeq(firestore, 1, saveLog[i].docs),
                                  saveLog[i].file_url)
                 /\ saveLog[i].built # Nothing =>
                      /\ TheOne(saveLog[i].built).version = metadata.version
                      /\ TheOne(saveLog[i].built).gcs_path = metadata.gcs_path
                 /\ (j = Len(saveLog) /\ \A p \in Procs : sv[p].pc = "idle") =>
                      SameBlob(gcs[metadata.gcs_path],
                               blob_of(TheOne(saveLog[j].data)))

(***************************************************************************)
(* Properties of what setup_master_data reports (SpecMaster)               *)
(***************************************************************************)

\* the created_* list of a phase in a result
ReportedCreated(result, phase) ==
  CASE phase = "issue types" -> result.created_issue_types
    [] phase = "categories" -> result.created_categories
    [] phase = "custom fields" -> result.created_custom_fields

\* C35: after a setup_master_data run, each created_* list names exactly
\* the items the run created in its phase, also those created before the
\* phase failed on a later item, and total_created is the number of items
\* the run created in the tracker
C35_ReportsEveryCreatedItem ==
  lastRun # Nothing =>
    LET run == TheOne(lastRun)
    IN /\ \A k \in 1..Len(Phases) :
            ReportedCreated(run.result, Phases[k]) = CreatedInTracker(run.calls, Phases[k])
       /\ total_created(run.result)
            = Len(SelectSeq(run.calls, LAMBDA c : c.op = "create" /\ c.ok))



(***************************************************************************)
(* Properties of the length of the merged list (SpecMerge)                 *)
(***************************************************************************)

\* how often a task occurs in a list
Occurrences(tasks, task) == Cardinality({i \in 1..Len(tasks) : tasks[i] = task})

\* the two lists hold the same tasks, each as often as the other
IsPermutation(a, b) ==
  /\ Len(a) = Len(b)
  /\ \A i \in 1..Len(a) : Occurrences(a, a[i]) = Occurrences(b, a[i])

\* C36: the list merge_tasks returns is a permutation of the template tasks
\* together with the classified new tasks, of length
\* len(template_tasks) + len(new_tasks), also when a template task carries
\* no category
C36_MergeKeepsEveryTask ==
  (merged_out # Nothing /\ ~TheOne(merged_out).raised) =>
    LET merged == TheOne(merged_out).value
        classified == [i \in 1..Len(new_tasks_in) |-> categorize_one(new_tasks_in[i])]
    IN /\ Len(merged) = Len(template_tasks_in) + Len(new_tasks_in)
       /\ IsPermutation(merged, template_tasks_in \o classified)



(***************************************************************************)
(* Properties of the titles a run registers (Spec)                         *)
(***************************************************************************)

\* no two titles of the list are the same once case-folded
DistinctTitles(titles) ==
  \A i, j \in 1..Len(titles) : Lower(titles[i]) = Lower(titles[j]) => i = j

\* C37: the list a run passes to create_tasks holds no two tasks with the
\* same case-folded title, and the tasks of the project, whose existing tasks
\* have pairwise distinct titles, together with the tasks the run created hold
\* no two tasks of the same case-folded title
C37_NoTwoTasksOfOneTitle ==
  /\ \A p \in Procs :
       ws[p].passed # Nothing =>
         LET tasks == TheOne(ws[p].passed)
         IN DistinctTitles([i \in 1..Len(tasks) |-> tasks[i].title])
  /\ \A p \in Procs :
       DistinctTitles(tracker.tasks
                        \o [i \in 1..Len(ws[p].created) |-> ws[p].created[i].title])



(***************************************************************************)
(* Properties of the stored content (SpecStoreOverlapping)                 *)
(***************************************************************************)

\* the data arguments of the save_data calls that wrote the record with the
\* given id: a finished call, or one that has stored the record and not yet
\* returned to its caller
DataOfWriter(id) ==
  {TheOne(saveLog[i].data) :
     i \in {j \in 1..Len(saveLog) :
              saveLog[j].metadata # Nothing /\ TheOne(saveLog[j].metadata).id = id}}
    \cup {TheOne(sv[p].data) :
            p \in {q \in Procs : sv[q].pc = "returned" /\ TheOne(sv[q].metadata).id = id}}

\* C38: for every stored metadata record, the content at its gcs_path is the
\* data passed to the save_data call that wrote the record, also when two
\* calls for one file_url overlap
C38_ContentIsWhatTheWriterSaved ==
  \A id \in 1..Len(firestore) :
    /\ firestore[id].gcs_path \in DOMAIN gcs
    /\ \A data \in DataOfWriter(id) :
         SameBlob(gcs[firestore[id].gcs_path], blob_of(data))



(***************************************************************************)
(* Properties of the reported registration (Spec)                          *)
(***************************************************************************)

\* C39: result.registered_tasks of a returned run lists exactly the tasks the
\* run created in the tracker; a run in which create_tasks raised, which
\* returns success = false and no registered task, created no task
C39_RegisteredTasksAreTheCreatedOnes ==
  \A p \in Procs :
    ws[p].pc = "returned" =>
      /\ ws[p].result.registered_tasks = ws[p].created
      /\ ws[p].raised = "create_tasks failed" =>
           /\ ~ws[p].result.success
           /\ ws[p].result.registered_tasks = <<>>
           /\ ws[p].created = <<>>



(***************************************************************************)
(* Properties of overlapping setup_master_data runs (SpecMasterOverlapping)*)
(***************************************************************************)

\* the items of a phase the project holds together with those the runs in
\* progress created
ItemsAndCreated(phase) ==
  ItemsOf(tracker, phase) \o CreatedInTracker(ms["p1"].calls, phase)
    \o CreatedInTracker(ms["p2"].calls, phase)

\* C40: each required master-data item is created at most once per project:
\* the items the project held at the start together with the items the runs
\* created hold no required item twice, and no item is created by both of two
\* overlapping runs
C40_CreatedAtMostOnce ==
  \A k \in 1..Len(Phases) :
    LET phase == Phases[k]
        required == RequiredNames(phase)
    IN /\ \A i \in 1..Len(required) :
            Occurrences(ItemsAndCreated(phase), required[i]) <= 1
       /\ \A p, q \in Procs :
            p # q =>
              Elems(CreatedInTracker(ms[p].calls, phase))
                \cap Elems(CreatedInTracker(ms[q].calls, phase)) = {}


====
